---- MODULE Spec2Model ----
(***************************************************************************)
(* Transform engine of FlowForge (src/src/modules/transform.py): the       *)
(* catalog of DataFrame operations of class DataTransformer, its           *)
(* transformation_history ledger, the process-wide `transformer` instance  *)
(* and the logging sink logger.log_etl_step.                               *)
(*                                                                         *)
(* A table is a record [columns, dtypes, rows]: the column labels in       *)
(* order, the dtype of each column, and the rows in order, each row a      *)
(* sequence of cells aligned with the labels.  A cell is a record          *)
(* [k, n, d, f, s]: a null (NaN/None/NaT/<NA>), a number n/d in lowest     *)
(* terms (f: a float), a text s (a sequence of one-character strings), a   *)
(* bool (n = 1: True) or a datetime (n nanoseconds after the epoch).       *)
(***************************************************************************)
EXTENDS Integers, Sequences, FiniteSets, TLC

VARIABLES
    current_data,            \* st.session_state.current_data of each user session
    transformation_history,  \* transformer.transformation_history (one per process)
    appended_by,             \* for each record appended since the process started, the session whose call appended it
    ret,                     \* what the last invocation gave its caller
    now                      \* the second of the last reading of datetime.now()

vars == <<current_data, transformation_history, appended_by, ret, now>>

----------------------------------------------------------------------------
(* Bounds of the model.                                                    *)

MaxRows == 2
MaxHistory == 2
MaxCount == 3       \* the most occurrences of a value in a column of values

----------------------------------------------------------------------------
(* Cells.                                                                  *)

NULL == [k |-> "null", n |-> 0, d |-> 1, f |-> FALSE, s |-> <<>>]
\* float('nan') passed as an argument; in a table it is the null NULL.
NaN == [NULL EXCEPT !.f = TRUE]
Number(i) == [k |-> "num", n |-> i, d |-> 1, f |-> FALSE, s |-> <<>>]
Text(chars) == [k |-> "str", n |-> 0, d |-> 1, f |-> FALSE, s |-> chars]
Bool(b) ==
    [k |-> "bool", n |-> (IF b THEN 1 ELSE 0), d |-> 1, f |-> FALSE, s |-> <<>>]
Datetime(ns) == [k |-> "dt", n |-> ns, d |-> 1, f |-> FALSE, s |-> <<>>]

IsNull(v) == v.k = "null"
IsNum(v) == v.k = "num"
IsStr(v) == v.k = "str"

RECURSIVE Gcd(_, _)
Gcd(x, y) == IF y = 0 THEN x ELSE Gcd(y, x % y)

Abs(x) == IF x < 0 THEN -x ELSE x

\* The float p/q (q > 0), in lowest terms.
Float(p, q) ==
    LET g == Gcd(Abs(p), q)
    IN  [k |-> "num", n |-> p \div g, d |-> q \div g, f |-> TRUE, s |-> <<>>]

\* A cell as == and hashing see it: 1 and 1.0 are the same value.
Plain(v) == IF IsNum(v) THEN [v EXCEPT !.f = FALSE] ELSE v

----------------------------------------------------------------------------
(* Sequences.                                                              *)

Range(seq) == {seq[i] : i \in 1..Len(seq)}

\* The elements of seq at the positions in S, in their order in seq.
RECURSIVE AtPositions(_, _, _)
AtPositions(seq, S, i) ==
    IF i > Len(seq) THEN <<>>
    ELSE (IF i \in S THEN <<seq[i]>> ELSE <<>>) \o AtPositions(seq, S, i + 1)

Keep(seq, S) == AtPositions(seq, S, 1)

\* [x for x in seq if x not in S]
NotIn(seq, S) == Keep(seq, {i \in 1..Len(seq) : seq[i] \notin S})

----------------------------------------------------------------------------
(* Tables.                                                                 *)

Table(columns, dtypes, rows) ==
    [columns |-> columns, dtypes |-> dtypes, rows |-> rows]

\* np.number dtypes, as select_dtypes(include=[np.number]) picks them
NumericDTypes == {"int64", "float64", "Int64"}

\* The cells of the column at position j, in row order.
Column(df, j) == [r \in 1..Len(df.rows) |-> df.rows[r][j]]

\* df with the rows at the positions in S only.
WithRows(df, S) == [df EXCEPT !.rows = Keep(df.rows, S)]

\* df with the column at position j replaced by cells, of dtype dtype.
SetColumn(df, j, dtype, cells) ==
    [df EXCEPT !.dtypes[j] = dtype,
               !.rows = [r \in 1..Len(df.rows) |->
                            [df.rows[r] EXCEPT ![j] = cells[r]]]]

\* df with a column label appended.
AddColumn(df, label, dtype, cells) ==
    [columns |-> Append(df.columns, label),
     dtypes |-> Append(df.dtypes, dtype),
     rows |-> [r \in 1..Len(df.rows) |-> Append(df.rows[r], cells[r])]]

NRows(df) == Len(df.rows)          \* len(df)
NCols(df) == Len(df.columns)       \* len(df.columns)

\* The positions of the label col in df.columns (several when labels repeat).
Positions(df, col) == {j \in 1..NCols(df) : df.columns[j] = col}

HasColumn(df, col) == col \in Range(df.columns)     \* col in df.columns

Pos(df, col) == CHOOSE j \in Positions(df, col) : TRUE

UniqueColumns(df) == Cardinality(Range(df.columns)) = NCols(df)

----------------------------------------------------------------------------
(* Messages, exceptions and the outcome of the body of an operation.       *)

\* A message: its wording, the column labels it lists, the count it
\* reports, and the exception text it carries (none: "").
\* (m: a second count, for the two messages that report two).
Msg(text, cols, n) ==
    [text |-> text, cols |-> cols, n |-> n, m |-> 0, arg |-> "", exc |-> ""]
MsgArg(text, cols, n, arg) ==
    [text |-> text, cols |-> cols, n |-> n, m |-> 0, arg |-> arg, exc |-> ""]
Msg2(text, cols, n, m) ==
    [text |-> text, cols |-> cols, n |-> n, m |-> m, arg |-> "", exc |-> ""]

\* An exception of class type whose text lists the labels cols.
\* base: the class derives from BaseException and not from Exception
\* (SystemExit, KeyboardInterrupt), so `except Exception` lets it pass.
Exc(type, cols) == [type |-> type, cols |-> cols, base |-> FALSE]
BaseExc(type) == [type |-> type, cols |-> <<>>, base |-> TRUE]
NoExc == [type |-> "", cols |-> <<>>, base |-> FALSE]

\* The details of a ledger record: the wording, the labels, the text
\* argument and the count it holds.
NoDetails == [text |-> "", cols |-> <<>>, arg |-> "", n |-> 0]
Details(text, cols, arg, n) ==
    [text |-> text, cols |-> cols, arg |-> arg, n |-> n]

\* What the statements of an operation's try block do, up to the call of
\* log_transformation:
\*   "done"   they reach log_transformation(operation, details, ...) with
\*            df_result = table and the message of the final return;
\*   "early"  they leave through a `return df, message` of the validation;
\*   "raise"  one of them raises exc.
Done(operation, table, details, message) ==
    [kind |-> "done", operation |-> operation, table |-> table,
     details |-> details, message |-> message, exc |-> NoExc]
\* A variant of the validation return that goes on to log_transformation
\* like a transformation that was applied.
Early_recorded(df, message) ==
    [kind |-> "done", operation |-> "VALIDATION", table |-> df,
     details |-> NoDetails, message |-> message, exc |-> NoExc]

Early(df, message) ==
    [kind |-> "early", operation |-> "", table |-> df,
     details |-> NoDetails, message |-> message, exc |-> NoExc]
Raise(df, exc) ==
    [kind |-> "raise", operation |-> "", table |-> df,
     details |-> NoDetails, message |-> Msg("", <<>>, 0), exc |-> exc]

\* f"Error ...: {str(e)}"
ErrorMsg(prefix, exc) ==
    [text |-> prefix, cols |-> exc.cols, n |-> 0, m |-> 0, arg |-> "",
     exc |-> exc.type]

----------------------------------------------------------------------------
(* The ledger.                                                             *)

\* Two variants of log_transformation that the ledger properties must tell
\* from it: one that only logs and records nothing, and one that puts the
\* record in front of the list.
log_without_record(history, operation, details, rows_before, rows_after, cols_before, cols_after, timestamp) ==
    history

record_in_front(history, operation, details, rows_before, rows_after, cols_before, cols_after, timestamp) ==
    <<[timestamp |-> timestamp,
       operation |-> operation,
       details |-> details,
       rows_before |-> rows_before,
       rows_after |-> rows_after,
       cols_before |-> cols_before,
       cols_after |-> cols_after,
       rows_changed |-> rows_after - rows_before,
       cols_changed |-> cols_after - cols_before]>> \o history

\* DataTransformer.log_transformation: the record appended to
\* transformation_history (the logger call that follows is in Complete).
log_transformation(history, operation, details, rows_before, rows_after, cols_before, cols_after, timestamp) ==
    Append(history,
           [timestamp |-> timestamp,
            operation |-> operation,
            details |-> details,
            rows_before |-> rows_before,
            rows_after |-> rows_after,
            cols_before |-> cols_before,
            cols_after |-> cols_after,
            rows_changed |-> rows_after - rows_before,
            cols_changed |-> cols_after - cols_before])

----------------------------------------------------------------------------
(* The protocol every catalog method follows:                              *)
(*     try:                                                                *)
(*         rows_before, cols_before = len(df), len(df.columns)             *)
(*         ... body ...                                                    *)
(*         rows_after, cols_after = len(df_result), len(df_result.columns) *)
(*         self.log_transformation(KIND, details, ...)                     *)
(*         return df_result, message                                       *)
(*     except Exception as e:                                              *)
(*         error_msg = f"Error ...: {str(e)}"                              *)
(*         logger.log_etl_step("ERROR", error_msg)                         *)
(*         return df, error_msg                                            *)

\* What a call gives its caller.  returned: the call returned a pair
\* (FALSE: an exception left the method); same_ref: the table returned is
\* the very object df; ok: the pair comes from the final return of the try
\* block; sink: the steps of the logger.log_etl_step calls made; exc: the
\* class of the exception that left the method.
Returned(table, same_ref, message, ok, history, sink) ==
    [returned |-> TRUE, table |-> table, same_ref |-> same_ref,
     message |-> message, ok |-> ok, history |-> history, sink |-> sink,
     exc |-> ""]
Propagated(df, exc, history, sink) ==
    [returned |-> FALSE, table |-> df, same_ref |-> TRUE,
     message |-> Msg("", <<>>, 0), ok |-> FALSE, history |-> history,
     sink |-> sink, exc |-> exc.type]

\* The exception of a logger.log_etl_step call that fails.
SinkError == Exc("SinkError", <<>>)

\* A variant of the except clause that also records the failure in the
\* ledger.
Handler_recording(prefix, df, exc, history, sink, faults) ==
    Returned(df, TRUE, ErrorMsg(prefix, exc), FALSE,
             log_transformation(history, "ERROR", NoDetails, NRows(df),
                                NRows(df), NCols(df), NCols(df), 0),
             Append(sink, "ERROR"))

\* The except clause, entered with e = exc when the logger has been called
\* for the steps in sink: it calls the logger once more.  faults holds the
\* ordinal numbers of the logger calls of this invocation that raise.
Handler(prefix, df, exc, history, sink, faults) ==
    IF Len(sink) + 1 \in faults
    THEN Propagated(df, SinkError, history, Append(sink, "ERROR"))
    ELSE Returned(df, TRUE, ErrorMsg(prefix, exc), FALSE, history,
                  Append(sink, "ERROR"))

\* A variant of the whole method that measures rows_after and cols_after
\* on df instead of df_result.
Complete_measuring_df(prefix, att, df, history, env) ==
    CASE att.kind = "early" ->
           Returned(df, TRUE, att.message, FALSE, history, <<>>)
      [] att.kind = "raise" /\ att.exc.base ->
           Propagated(df, att.exc, history, <<>>)
      [] att.kind = "raise" /\ ~att.exc.base ->
           Handler(prefix, df, att.exc, history, <<>>, env.faults)
      [] att.kind = "done" ->
           Returned(att.table, FALSE, att.message, TRUE,
                    log_transformation(history, att.operation, att.details,
                                       NRows(df), NRows(df),
                                       NCols(df), NCols(df), env.timestamp),
                    <<"TRANSFORM">>)

\* The whole method, given what its body does (att).  env.timestamp is
\* datetime.now(), env.faults the failing logger calls.
Complete(prefix, att, df, history, env) ==
    CASE att.kind = "early" ->
           Returned(df, TRUE, att.message, FALSE, history, <<>>)
      [] att.kind = "raise" /\ att.exc.base ->
           Propagated(df, att.exc, history, <<>>)
      [] att.kind = "raise" /\ ~att.exc.base ->
           Handler(prefix, df, att.exc, history, <<>>, env.faults)
      [] att.kind = "done" ->
           LET appended ==
                   log_transformation(history, att.operation, att.details,
                                      NRows(df), NRows(att.table),
                                      NCols(df), NCols(att.table),
                                      env.timestamp)
           IN  \* log_transformation ends with logger.log_etl_step("TRANSFORM", ...)
               IF 1 \in env.faults
               THEN Handler(prefix, df, SinkError, appended, <<"TRANSFORM">>,
                            env.faults)
               ELSE Returned(att.table, FALSE, att.message, TRUE, appended,
                             <<"TRANSFORM">>)

----------------------------------------------------------------------------
(* Labels.  LabelOrder lists the labels of the model in sorted order.      *)

LabelOrder ==
    <<"a", "a_extracted", "b", "b_extracted", "c", "c_extracted", "yy", "zz">>

\* sorted(S) for a set S of labels
Sorted(S) == Keep(LabelOrder, {i \in 1..Len(LabelOrder) : LabelOrder[i] \in S})

\* [col for col in cols if col not in df.columns]
invalid_cols(df, cols) == NotIn(cols, Range(df.columns))

----------------------------------------------------------------------------
(* remove_duplicates                                                       *)

\* The cells of row r under the labels of subset (all cells: subset empty).
DupKey(df, subset, r) ==
    [j \in {j \in 1..NCols(df) : subset = {} \/ df.columns[j] \in subset}
       |-> Plain(df.rows[r][j])]

\* A variant of duplicated that takes keep='first' for keep='last' and
\* the other way round.
Duplicated_other_end(df, subset, keep) ==
    {r \in 1..NRows(df) :
        \E q \in 1..NRows(df) :
            /\ DupKey(df, subset, q) = DupKey(df, subset, r)
            /\ CASE keep = "first" -> q > r
                 [] keep = "last" -> q < r
                 [] OTHER -> q # r}

\* DataFrame.duplicated(subset, keep): the positions of the rows marked.
\* Nulls compare equal to one another.
Duplicated(df, subset, keep) ==
    {r \in 1..NRows(df) :
        \E q \in 1..NRows(df) :
            /\ DupKey(df, subset, q) = DupKey(df, subset, r)
            /\ CASE keep = "first" -> q < r
                 [] keep = "last" -> q > r
                 [] OTHER -> q # r}

\* A variant of drop_duplicates that selects df[duplicated] instead of
\* df[~duplicated].
keep_duplicates(df, columns, keep) ==
    LET subset == Range(columns)
        diff == subset \ Range(df.columns)
    IN  IF NRows(df) = 0 \/ NCols(df) = 0
        THEN [exc |-> NoExc, table |-> df]
        ELSE IF diff # {}
        THEN [exc |-> Exc("KeyError", Sorted(diff)), table |-> df]
        ELSE IF keep \notin {"first", "last", "False"}
        THEN [exc |-> Exc("ValueError", <<>>), table |-> df]
        ELSE [exc |-> NoExc,
              table |-> WithRows(df, Duplicated(df, subset, keep))]

\* DataFrame.drop_duplicates(subset, keep) as remove_duplicates calls it.
\* An empty frame is copied before subset and keep are looked at.
drop_duplicates(df, columns, keep) ==
    LET subset == Range(columns)
        diff == subset \ Range(df.columns)
    IN  IF NRows(df) = 0 \/ NCols(df) = 0
        THEN [exc |-> NoExc, table |-> df]
        ELSE IF diff # {}
        THEN [exc |-> Exc("KeyError", Sorted(diff)), table |-> df]
        ELSE IF keep \notin {"first", "last", "False"}
        THEN [exc |-> Exc("ValueError", <<>>), table |-> df]
        ELSE [exc |-> NoExc,
              table |-> WithRows(df, (1..NRows(df))
                                      \ Duplicated(df, subset, keep))]

remove_duplicates(history, df, columns, keep, env) ==
    LET res == drop_duplicates(df, columns, keep)
        details == IF columns # <<>>
                   THEN Details("Based on columns", columns, keep, 0)
                   ELSE Details("All columns", <<>>, keep, 0)
        att == IF res.exc # NoExc
               THEN Raise(df, res.exc)
               ELSE Done("REMOVE_DUPLICATES", res.table, details,
                         Msg("Removed duplicate rows", <<>>,
                             NRows(df) - NRows(res.table)))
    IN  Complete("Error removing duplicates", att, df, history, env)

----------------------------------------------------------------------------
(* Order of cells.                                                         *)

\* The printable characters of the model in code point order.
Alphabet ==
    <<" ", "!", "#", "$", "%", "&", "'", "(", ")", "*", "+", ",", "-", ".",
      "/", "0", "1", "2", "3", "4", "5", "6", "7", "8", "9", ":", ";", "<",
      "=", ">", "?", "@", "A", "B", "C", "D", "E", "F", "G", "H", "I", "J",
      "K", "L", "M", "N", "O", "P", "Q", "R", "S", "T", "U", "V", "W", "X",
      "Y", "Z", "[", "]", "^", "_", "a", "b", "c", "d", "e", "f", "g",
      "h", "i", "j", "k", "l", "m", "n", "o", "p", "q", "r", "s", "t", "u",
      "v", "w", "x", "y", "z", "{", "|", "}", "~">>

Code(ch) == CHOOSE i \in 1..Len(Alphabet) : Alphabet[i] = ch

\* s < t for two texts, as Python compares str
RECURSIVE TextLess(_, _)
TextLess(s, t) ==
    IF t = <<>> THEN FALSE
    ELSE IF s = <<>> THEN TRUE
    ELSE IF s[1] = t[1] THEN TextLess(Tail(s), Tail(t))
    ELSE Code(s[1]) < Code(t[1])

NumLess(x, y) == x.n * y.d < y.n * x.d

\* Two cells that Python can order (x < y raises TypeError for the rest).
Comparable(x, y) == x.k = y.k /\ x.k \in {"num", "str", "bool", "dt"}

Less(x, y) ==
    IF x.k = "str" THEN TextLess(x.s, y.s) ELSE NumLess(x, y)

AddNum(x, y) == Float(x.n * y.d + y.n * x.d, x.d * y.d)

RECURSIVE SumCells(_)
SumCells(cells) ==
    IF cells = <<>> THEN Float(0, 1)
    ELSE AddNum(cells[1], SumCells(Tail(cells)))

\* The positions of seq in ascending order of its cells, ties in their
\* order in seq (the cells are pairwise Comparable).
Ascending(seq) ==
    LET rank(i) == Cardinality({j \in 1..Len(seq) :
                                   \/ Less(seq[j], seq[i])
                                   \/ (~Less(seq[i], seq[j]) /\ j < i)})
    IN  [p \in 1..Len(seq) |-> CHOOSE i \in 1..Len(seq) : rank(i) = p - 1]

----------------------------------------------------------------------------
(* handle_missing_values                                                   *)

\* The nulls of the whole table, whatever the columns asked for.
NullCount_everywhere(df, cols) ==
    Cardinality({<<r, j>> \in (1..Len(df.rows)) \X (1..Len(df.columns)) :
                    IsNull(df.rows[r][j])})

\* df[cols].isnull().sum().sum()
NullCount(df, cols) ==
    Cardinality({<<r, j>> \in (1..NRows(df)) \X (1..NCols(df)) :
                    df.columns[j] \in Range(cols) /\ IsNull(df.rows[r][j])})

\* The non-null cells of the column at position j, in row order.
NonNull(df, j) ==
    LET col == Column(df, j)
    IN  Keep(col, {r \in 1..NRows(df) : ~IsNull(col[r])})

\* Series.mean() of a numeric column: NaN when every cell is null.
Mean(df, j) ==
    LET cells == NonNull(df, j)
        sum == SumCells(cells)
    IN  IF cells = <<>> THEN NULL ELSE Float(sum.n, sum.d * Len(cells))

\* Series.median() of a numeric column.
Median(df, j) ==
    LET cells == NonNull(df, j)
        ord == Ascending(cells)
        m == Len(cells)
        lo == cells[ord[(m + 1) \div 2]]
        hi == cells[ord[(m \div 2) + 1]]
    IN  IF cells = <<>> THEN NULL
        ELSE LET sum == AddNum(lo, hi) IN Float(sum.n, sum.d * 2)

\* Series.mode(): the most frequent non-null values, sorted when they can
\* be sorted and in order of first appearance otherwise.
Mode(df, j) ==
    LET cells == NonNull(df, j)
        count(i) == Cardinality({q \in 1..Len(cells) :
                                    Plain(cells[q]) = Plain(cells[i])})
        firsts == {i \in 1..Len(cells) :
                      /\ \A q \in 1..Len(cells) : count(q) <= count(i)
                      /\ \A q \in 1..(i - 1) : Plain(cells[q]) # Plain(cells[i])}
        modes == Keep(cells, firsts)
        sortable == \A x, y \in Range(modes) : Comparable(x, y)
    IN  IF sortable THEN [p \in 1..Len(modes) |-> modes[Ascending(modes)[p]]]
        ELSE modes

\* Series.fillna(value) for a scalar value: the cells and the dtype.  A
\* column without nulls is left as it is; a float column takes a number as
\* a float and becomes an object column when it takes anything else.
FillNa(df, j, value) ==
    LET col == Column(df, j)
        nulls == \E r \in 1..NRows(df) : IsNull(col[r])
        dtype == df.dtypes[j]
        asfloat == dtype = "float64" /\ IsNum(value)
        fill == IF asfloat THEN [value EXCEPT !.f = TRUE] ELSE value
    IN  IF ~nulls \/ IsNull(value) THEN df
        ELSE SetColumn(df, j,
                       IF dtype = "float64" /\ ~IsNum(value) THEN "object"
                       ELSE dtype,
                       [r \in 1..NRows(df) |->
                           IF IsNull(col[r]) THEN fill ELSE col[r]])

\* fillna(method='ffill') (forward = TRUE) or 'bfill' on one column
Propagate(df, j, forward) ==
    LET col == Column(df, j)
        src(r) == {q \in 1..NRows(df) :
                      /\ ~IsNull(col[q])
                      /\ IF forward THEN q < r ELSE q > r}
        nearest(r) == CHOOSE q \in src(r) :
                          \A p \in src(r) : IF forward THEN p <= q ELSE p >= q
    IN  SetColumn(df, j, df.dtypes[j],
                  [r \in 1..NRows(df) |->
                      IF IsNull(col[r]) /\ src(r) # {}
                      THEN col[nearest(r)] ELSE col[r]])

\* changed[j] is df with the column at position j alone changed: df with
\* every column at a position in S changed so.
OverColumns(df, S, changed) ==
    [columns |-> df.columns,
     dtypes |-> [j \in 1..NCols(df) |->
                    IF j \in S THEN changed[j].dtypes[j] ELSE df.dtypes[j]],
     rows |-> [r \in 1..NRows(df) |->
                  [j \in 1..NCols(df) |->
                      IF j \in S THEN changed[j].rows[r][j]
                      ELSE df.rows[r][j]]]]

KnownMethods ==
    {"drop", "fill_mean", "fill_median", "fill_mode", "fill_value",
     "forward_fill", "backward_fill"}

\* fill_value = NULL stands for the default None, NaN for a float nan.
handle_missing_values(history, df, method, columns, fill_value, env) ==
    LET target_columns == IF columns # <<>> THEN columns ELSE df.columns
        absent == invalid_cols(df, target_columns)
        target == {j \in 1..NCols(df) : df.columns[j] \in Range(target_columns)}
        numeric_cols == {j \in target : df.dtypes[j] \in NumericDTypes}
        fill_mean(d, j) == FillNa(d, j, Mean(d, j))
        fill_median(d, j) == FillNa(d, j, Median(d, j))
        fill_mode(d, j) ==
            LET mode_value == Mode(d, j)
            IN  IF mode_value # <<>> THEN FillNa(d, j, mode_value[1]) ELSE d
        fill_with(d, j) == FillNa(d, j, fill_value)
        ffill(d, j) == Propagate(d, j, TRUE)
        bfill(d, j) == Propagate(d, j, FALSE)
        df_result ==
            CASE method = "drop" ->
                   WithRows(df, {r \in 1..NRows(df) :
                                    \A j \in target : ~IsNull(df.rows[r][j])})
              [] method = "fill_mean" ->
                   OverColumns(df, numeric_cols, [j \in 1..NCols(df) |-> fill_mean(df, j)])
              [] method = "fill_median" ->
                   OverColumns(df, numeric_cols, [j \in 1..NCols(df) |-> fill_median(df, j)])
              [] method = "fill_mode" ->
                   OverColumns(df, target, [j \in 1..NCols(df) |-> fill_mode(df, j)])
              [] method = "fill_value" ->
                   OverColumns(df, target, [j \in 1..NCols(df) |-> fill_with(df, j)])
              [] method = "forward_fill" ->
                   OverColumns(df, target, [j \in 1..NCols(df) |-> ffill(df, j)])
              [] method = "backward_fill" ->
                   OverColumns(df, target, [j \in 1..NCols(df) |-> bfill(df, j)])
              [] OTHER -> df
        details ==
            CASE method = "drop" ->
                   Details("Dropped rows with missing values in columns",
                           <<>>, "", Len(target_columns))
              [] method = "fill_mean" ->
                   Details("Filled with mean for numeric columns",
                           <<>>, "", Cardinality(numeric_cols))
              [] method = "fill_median" ->
                   Details("Filled with median for numeric columns",
                           <<>>, "", Cardinality(numeric_cols))
              [] method = "fill_mode" ->
                   Details("Filled with mode for columns",
                           <<>>, "", Len(target_columns))
              [] method = "fill_value" ->
                   Details("Filled with value for columns",
                           <<>>, "", Len(target_columns))
              [] method = "forward_fill" ->
                   Details("Forward fill for columns",
                           <<>>, "", Len(target_columns))
              [] method = "backward_fill" ->
                   Details("Backward fill for columns",
                           <<>>, "", Len(target_columns))
              [] OTHER -> NoDetails
        att ==
            IF absent # <<>>
            THEN \* df[target_columns]
                 Raise(df, Exc("KeyError", absent))
            ELSE IF method = "fill_value" /\ fill_value = NULL
            THEN \* fillna(None)
                 Raise(df, Exc("ValueError", <<>>))
            ELSE IF method \notin KnownMethods
            THEN \* no branch assigns details: log_transformation's argument
                 Raise(df, Exc("UnboundLocalError", <<>>))
            ELSE Done("HANDLE_MISSING", df_result, details,
                      MsgArg("Handled missing values using", <<>>,
                             NullCount(df, target_columns)
                               - NullCount(df_result, target_columns),
                             method))
    IN  Complete("Error handling missing values", att, df, history, env)

----------------------------------------------------------------------------
(* Texts.                                                                  *)

Digit == <<"0", "1", "2", "3", "4", "5", "6", "7", "8", "9">>

\* str(n) for an int n >= 0
RECURSIVE Digits(_)
Digits(n) ==
    IF n < 10 THEN <<Digit[n + 1]>>
    ELSE Digits(n \div 10) \o <<Digit[(n % 10) + 1]>>

\* The digits after the point of rem/d (0 <= rem < d), at most left of them.
RECURSIVE Fraction(_, _, _)
Fraction(rem, d, left) ==
    IF rem = 0 \/ left = 0 THEN <<>>
    ELSE <<Digit[((rem * 10) \div d) + 1]>>
           \o Fraction((rem * 10) % d, d, left - 1)

\* The digits repr() gives a float after the point.
FloatDigits == 16

\* str(x) for a number cell: an int prints its digits, a float prints a
\* point and at least one digit after it (exact when the expansion ends).
NumText(x) ==
    LET a == Abs(x.n)
        sign == IF x.n < 0 THEN <<"-">> ELSE <<>>
        frac == Fraction(a % x.d, x.d, FloatDigits)
    IN  IF ~x.f THEN sign \o Digits(a)
        ELSE sign \o Digits(a \div x.d) \o <<".">>
               \o (IF frac = <<>> THEN <<"0">> ELSE frac)

\* str(x) for the cell x of a column of dtype dtype, as astype(str) gives it
AsText(x, dtype) ==
    CASE x.k = "str" -> x.s
      [] x.k = "num" -> NumText(x)
      [] x.k = "bool" -> IF x.n = 1 THEN <<"T", "r", "u", "e">>
                         ELSE <<"F", "a", "l", "s", "e">>
      [] x.k = "dt" -> <<"1", "9", "7", "0", "-", "0", "1", "-", "0", "1",
                         " ", "0", "0", ":", "0", "0", ":", "0", "0", ".">>
                        \o Digits(x.n)
      [] x.k = "null" -> CASE dtype = "Int64" -> <<"<", "N", "A", ">">>
                           [] dtype = "datetime64" -> <<"N", "a", "T">>
                           [] OTHER -> <<"n", "a", "n">>

\* Series.astype(str): every cell a text, the nulls included
AsType_str(df, j) ==
    SetColumn(df, j, "object",
              [r \in 1..NRows(df) |-> Text(AsText(df.rows[r][j], df.dtypes[j]))])

\* text[i..] starts with pat, where "." in a regular expression pat stands
\* for any character (regex = TRUE)
StartsAt(text, pat, i, regex) ==
    /\ i + Len(pat) - 1 <= Len(text)
    /\ \A q \in 1..Len(pat) :
          \/ text[i + q - 1] = pat[q]
          \/ (regex /\ pat[q] = ".")

Count(text, ch) == Cardinality({q \in 1..Len(text) : text[q] = ch})

\* re.compile(pat) succeeds: the parentheses of pat pair up.
Compiles(pat) ==
    /\ Count(pat, "(") = Count(pat, ")")
    /\ \A q \in 1..Len(pat) :
          Count(SubSeq(pat, 1, q), ")") <= Count(SubSeq(pat, 1, q), "(")

Contains(text, pat) == \E i \in 1..(Len(text) + 1) : StartsAt(text, pat, i, TRUE)
StartsWith(text, pat) == StartsAt(text, pat, 1, FALSE)
EndsWith(text, pat) == StartsAt(text, pat, Len(text) - Len(pat) + 1, FALSE)

----------------------------------------------------------------------------
(* filter_data                                                             *)

ComparisonOperators == {"==", "!=", ">", "<", ">=", "<="}
TextOperators == {"contains", "startswith", "endswith"}

\* cell == value for one cell of a column (a null equals nothing)
CellEq(x, value) == ~IsNull(x) /\ ~IsNull(value) /\ Plain(x) = Plain(value)

\* cell <operator> value for two Comparable cells
Ordered(x, operator, value) ==
    CASE operator = ">" -> Less(value, x)
      [] operator = "<" -> Less(x, value)
      [] operator = ">=" -> ~Less(x, value)
      [] operator = "<=" -> ~Less(value, x)

\* df[column] <operator> value raises TypeError: a numeric column against
\* a text, or an object column with a cell the value cannot be ordered with.
Unorderable(df, j, value) ==
    IF df.dtypes[j] \in NumericDTypes THEN ~IsNum(value)
    ELSE \E r \in 1..NRows(df) :
            ~IsNull(df.rows[r][j]) /\ ~Comparable(df.rows[r][j], value)

filter_data(history, df, column, operator, value, env) ==
    LET j == Pos(df, column)
        pat == AsText(value, "object")      \* str(value)
        text(r) == AsText(df.rows[r][j], df.dtypes[j])
        mask(r) ==
            CASE operator = "==" -> CellEq(df.rows[r][j], value)
              [] operator = "!=" -> ~CellEq(df.rows[r][j], value)
              [] operator \in {">", "<", ">=", "<="} ->
                   /\ ~IsNull(df.rows[r][j])
                   /\ Ordered(df.rows[r][j], operator, value)
              [] operator = "contains" -> Contains(text(r), pat)
              [] operator = "startswith" -> StartsWith(text(r), pat)
              [] operator = "endswith" -> EndsWith(text(r), pat)
        df_result == WithRows(df, {r \in 1..NRows(df) : mask(r)})
        att ==
            IF ~HasColumn(df, column)
            THEN Early(df, Msg("Column not found in DataFrame", <<column>>, 0))
            ELSE IF operator \notin ComparisonOperators \cup TextOperators
            THEN Early(df, MsgArg("Unsupported operator", <<>>, 0, operator))
            ELSE IF operator \in {">", "<", ">=", "<="} /\ Unorderable(df, j, value)
            THEN Raise(df, Exc("TypeError", <<>>))
            ELSE IF operator = "contains" /\ ~Compiles(pat)
            THEN Raise(df, Exc("re.error", <<>>))
            ELSE Done("FILTER_DATA", df_result,
                      Details("Column operator value", <<column>>, operator, 0),
                      MsgArg("Filtered to rows where", <<column>>,
                             NRows(df_result), operator))
    IN  Complete("Error filtering data", att, df, history, env)

----------------------------------------------------------------------------
(* sort_data                                                               *)

\* ascending = None
NoFlags == [given |-> FALSE, flags |-> <<>>]
Flags(flags) == [given |-> TRUE, flags |-> flags]

\* Row p goes before row q under the keys at positions keys[i], ascending
\* where asc[i]; nulls go last whatever the direction.
RECURSIVE RowBefore(_, _, _, _, _, _)
RowBefore(df, keys, asc, i, p, q) ==
    IF i > Len(keys) THEN FALSE
    ELSE LET x == df.rows[p][keys[i]]
             y == df.rows[q][keys[i]]
         IN  IF IsNull(x) /\ IsNull(y) THEN RowBefore(df, keys, asc, i + 1, p, q)
             ELSE IF IsNull(x) THEN FALSE
             ELSE IF IsNull(y) THEN TRUE
             ELSE IF Less(x, y) THEN asc[i]
             ELSE IF Less(y, x) THEN ~asc[i]
             ELSE RowBefore(df, keys, asc, i + 1, p, q)

\* The orders sort_values may leave rows of equal keys in, each a ranking
\* of the row positions.  Several keys go through a lexsort, which keeps
\* the order of the input; one key goes through argsort(kind='quicksort'),
\* the default kind, which promises no order among equal keys.
Orders(df, by) ==
    IF Len(by) = 1
    THEN {f \in [1..NRows(df) -> 1..NRows(df)] :
             \A p, q \in 1..NRows(df) : f[p] = f[q] => p = q}
    ELSE {[p \in 1..NRows(df) |-> p]}

\* DataFrame.sort_values(by, ascending): rows of equal keys come in the
\* order of ties, a member of Orders(df, by); the rows whose single key is
\* null are put last in the order of the input.
sort_values(df, by, asc, ties) ==
    LET keys == [i \in 1..Len(by) |-> Pos(df, by[i])]
        nulls(p, q) == /\ Len(by) = 1
                       /\ IsNull(df.rows[p][keys[1]]) /\ IsNull(df.rows[q][keys[1]])
        first(q, p) == IF nulls(p, q) THEN q < p ELSE ties[q] < ties[p]
        rank(p) == Cardinality({q \in 1..NRows(df) :
                                   \/ RowBefore(df, keys, asc, 1, q, p)
                                   \/ (~RowBefore(df, keys, asc, 1, p, q) /\ first(q, p))})
    IN  [df EXCEPT !.rows = [i \in 1..NRows(df) |->
                               df.rows[CHOOSE p \in 1..NRows(df) : rank(p) = i - 1]]]

\* Sorting raises TypeError: a key column holds cells Python cannot order.
Unsortable(df, by) ==
    \E i \in 1..Len(by) :
        \E p, q \in 1..NRows(df) :
            LET x == df.rows[p][Pos(df, by[i])]
                y == df.rows[q][Pos(df, by[i])]
            IN  ~IsNull(x) /\ ~IsNull(y) /\ ~Comparable(x, y)

sort_data(history, df, columns, ascending, ties, env) ==
    LET invalid == invalid_cols(df, columns)
        asc == IF ascending.given THEN ascending.flags
               ELSE [i \in 1..Len(columns) |-> TRUE]
        order == IF \A i \in 1..Len(asc) : asc[i] THEN "asc"
                 ELSE IF \A i \in 1..Len(asc) : ~asc[i] THEN "desc"
                 ELSE "mixed"
        att ==
            IF invalid # <<>>
            THEN Early(df, Msg("Columns not found", invalid, 0))
            ELSE IF Len(asc) # Len(columns)
            THEN Early(df, Msg("Length of ascending list must match columns list",
                               <<>>, 0))
            ELSE IF Unsortable(df, columns)
            THEN Raise(df, Exc("TypeError", <<>>))
            ELSE Done("SORT_DATA", sort_values(df, columns, asc, ties),
                      Details("Sorted by", columns, order, 0),
                      Msg("Sorted data by columns", <<>>, Len(columns)))
    IN  Complete("Error sorting data", att, df, history, env)

----------------------------------------------------------------------------
(* rename_columns, drop_columns, fix_column_typos                          *)

\* A mapping (a dict) is the sequence of its items [key, value] in
\* insertion order, the keys pairwise different.
Item(key, value) == [key |-> key, value |-> value]
Keys(mapping) == [i \in 1..Len(mapping) |-> mapping[i].key]
Lookup(mapping, key) ==
    mapping[CHOOSE i \in 1..Len(mapping) : mapping[i].key = key].value

\* DataFrame.rename(columns=mapping)
rename(df, mapping) ==
    [df EXCEPT !.columns =
        [j \in 1..NCols(df) |->
            IF df.columns[j] \in Range(Keys(mapping))
            THEN Lookup(mapping, df.columns[j]) ELSE df.columns[j]]]

rename_columns(history, df, column_mapping, env) ==
    LET invalid == invalid_cols(df, Keys(column_mapping))
        att ==
            IF invalid # <<>>
            THEN Early(df, Msg("Columns not found", invalid, 0))
            ELSE Done("RENAME_COLUMNS", rename(df, column_mapping),
                      Details("Renamed columns", <<>>, "", Len(column_mapping)),
                      Msg("Renamed columns", <<>>, Len(column_mapping)))
    IN  Complete("Error renaming columns", att, df, history, env)

\* DataFrame.drop(columns=columns)
drop(df, columns) ==
    LET keep == {j \in 1..NCols(df) : df.columns[j] \notin Range(columns)}
    IN  [columns |-> Keep(df.columns, keep),
         dtypes |-> Keep(df.dtypes, keep),
         rows |-> [r \in 1..NRows(df) |-> Keep(df.rows[r], keep)]]

drop_columns(history, df, columns, env) ==
    LET invalid == invalid_cols(df, columns)
        att ==
            IF invalid # <<>>
            THEN Early(df, Msg("Columns not found", invalid, 0))
            ELSE Done("DROP_COLUMNS", drop(df, columns),
                      Details("Dropped columns", columns, "", 0),
                      Msg("Dropped columns", <<>>, Len(columns)))
    IN  Complete("Error dropping columns", att, df, history, env)

fix_column_typos(history, df, corrections, env) ==
    LET invalid == invalid_cols(df, Keys(corrections))
        att ==
            IF invalid # <<>>
            THEN Early(df, Msg("Error: Columns not found", invalid, 0))
            ELSE Done("FIX_COLUMN_TYPOS", rename(df, corrections),
                      Details("Fixed column typos", Keys(corrections), "", 0),
                      Msg("Successfully fixed column name typos", <<>>,
                          Len(corrections)))
    IN  Complete("Error fixing column typos", att, df, history, env)

----------------------------------------------------------------------------
(* convert_data_types                                                      *)

IsDigits(text) ==
    text # <<>> /\ \A q \in 1..Len(text) : text[q] \in Range(Digit)

RECURSIVE DigitsValue(_)
DigitsValue(text) ==
    IF text = <<>> THEN 0
    ELSE 10 * DigitsValue(SubSeq(text, 1, Len(text) - 1))
           + (CHOOSE v \in 0..9 : Digit[v + 1] = text[Len(text)])

RECURSIVE Power10(_)
Power10(e) == IF e = 0 THEN 1 ELSE 10 * Power10(e - 1)

\* pd.to_numeric(x, errors='coerce') for one cell: texts of digits, with a
\* point or without, parse; every other text gives NaN.
ToNumeric(x) ==
    LET dot == {q \in 1..Len(x.s) : x.s[q] = "."}
        q == CHOOSE q \in dot : TRUE
        whole == SubSeq(x.s, 1, q - 1)
        part == SubSeq(x.s, q + 1, Len(x.s))
    IN  CASE x.k \in {"num", "null"} -> x
          [] x.k = "bool" -> Number(x.n)
          [] x.k = "dt" -> Number(x.n)
          [] x.k = "str" ->
               IF IsDigits(x.s) THEN Number(DigitsValue(x.s))
               ELSE IF Cardinality(dot) = 1 /\ IsDigits(whole) /\ IsDigits(part)
               THEN Float(DigitsValue(whole) * Power10(Len(part))
                            + DigitsValue(part), Power10(Len(part)))
               ELSE NULL

\* pd.to_datetime(x, errors='coerce') for one cell: a number counts
\* nanoseconds, a text that is no date gives NaT.  The texts of the model
\* that parse are the texts of digits (a year).
ToDatetime(x) ==
    CASE x.k = "num" -> Datetime(x.n \div x.d)
      [] x.k = "dt" -> x
      [] x.k = "str" /\ IsDigits(x.s) -> Datetime(DigitsValue(x.s))
      [] OTHER -> NULL

\* bool(x): NaN is True, 0 and '' are False
ToBool(x) ==
    CASE x.k = "num" -> Bool(x.n # 0)
      [] x.k = "str" -> Bool(x.s # <<>>)
      [] x.k = "bool" -> x
      [] OTHER -> Bool(TRUE)

SupportedTypes == {"int", "float", "string", "datetime", "boolean", "category"}

\* The body of the inner try for one column: the table after it and
\* whether a statement of it raised.
ConvertColumn(df, j, target_type) ==
    LET col == Column(df, j)
        nums == [r \in 1..NRows(df) |-> ToNumeric(col[r])]
        whole == \A r \in 1..NRows(df) : nums[r].d = 1
        nonull == \A r \in 1..NRows(df) : ~IsNull(nums[r])
        floats == \E r \in 1..NRows(df) : nums[r].f
        asint(x) == IF IsNum(x) THEN [x EXCEPT !.f = FALSE] ELSE x
        asfloat(x) == IF IsNum(x) THEN [x EXCEPT !.f = TRUE] ELSE x
    IN  CASE target_type = "int" ->
               \* .astype('Int64') cannot cast a float that is no integer
               IF whole
               THEN [raised |-> FALSE,
                     table |-> SetColumn(df, j, "Int64",
                                  [r \in 1..NRows(df) |-> asint(nums[r])])]
               ELSE [raised |-> TRUE, table |-> df]
          [] target_type = "float" ->
               [raised |-> FALSE,
                table |->
                  IF df.dtypes[j] \in NumericDTypes THEN df
                  ELSE IF nonull /\ ~floats
                  THEN SetColumn(df, j, "int64", nums)
                  ELSE SetColumn(df, j, "float64",
                                 [r \in 1..NRows(df) |-> asfloat(nums[r])])]
          [] target_type = "string" ->
               [raised |-> FALSE, table |-> AsType_str(df, j)]
          [] target_type = "datetime" ->
               [raised |-> FALSE,
                table |-> SetColumn(df, j, "datetime64",
                             [r \in 1..NRows(df) |-> ToDatetime(col[r])])]
          [] target_type = "boolean" ->
               [raised |-> FALSE,
                table |-> SetColumn(df, j, "bool",
                             [r \in 1..NRows(df) |-> ToBool(col[r])])]
          [] target_type = "category" ->
               [raised |-> FALSE, table |-> SetColumn(df, j, "category", col)]
          [] OTHER ->
               \* no branch of the if/elif chain: nothing is done
               [raised |-> FALSE, table |-> df]

\* The loop over type_mapping.items(), from item i on: the table, the
\* columns of conversion_errors and the columns of successful_conversions.
RECURSIVE ConvertLoop(_, _, _, _)
ConvertLoop(df0, acc, type_mapping, i) ==
    IF i > Len(type_mapping) THEN acc
    ELSE LET column == type_mapping[i].key
             target_type == type_mapping[i].value
             res == ConvertColumn(acc.table, Pos(df0, column), target_type)
         IN  IF ~HasColumn(df0, column)
             THEN ConvertLoop(df0, [acc EXCEPT !.errors = Append(@, column)],
                              type_mapping, i + 1)
             ELSE IF res.raised
             THEN ConvertLoop(df0, [acc EXCEPT !.errors = Append(@, column)],
                              type_mapping, i + 1)
             ELSE ConvertLoop(df0, [acc EXCEPT !.table = res.table,
                                               !.successful = Append(@, column)],
                              type_mapping, i + 1)

convert_data_types(history, df, type_mapping, env) ==
    LET out == ConvertLoop(df, [table |-> df, errors |-> <<>>,
                                successful |-> <<>>], type_mapping, 1)
        att == Done("CONVERT_TYPES", out.table,
                    Details("Converted columns", <<>>, "", Len(out.successful)),
                    \* "Successfully converted N columns" and, when there
                    \* are errors, ". Errors: ..." naming each failing column
                    Msg2("Successfully converted columns", out.errors,
                         Len(out.successful), Len(out.errors)))
    IN  Complete("Error converting data types", att, df, history, env)

----------------------------------------------------------------------------
(* create_calculated_column                                                *)

\* The characters of each label.
LabelChars ==
    [a |-> <<"a">>, b |-> <<"b">>, c |-> <<"c">>,
     yy |-> <<"y", "y">>, zz |-> <<"z", "z">>,
     a_extracted |-> <<"a", "_", "e", "x", "t", "r", "a", "c", "t", "e", "d">>,
     b_extracted |-> <<"b", "_", "e", "x", "t", "r", "a", "c", "t", "e", "d">>,
     c_extracted |-> <<"c", "_", "e", "x", "t", "r", "a", "c", "t", "e", "d">>,
     nam |-> <<"n", "a", "m">>, Name |-> <<"N", "a", "m", "e">>,
     xyz123 |-> <<"x", "y", "z", "1", "2", "3">>,
     tame |-> <<"t", "a", "m", "e">>, tount |-> <<"t", "o", "u", "n", "t">>,
     atume |-> <<"a", "t", "u", "m", "e">>]

\* text.replace(old, new), from position i on
RECURSIVE ReplaceFrom(_, _, _, _)
ReplaceFrom(text, old, new, i) ==
    IF old = <<>>
    THEN (IF i > Len(text) THEN new
          ELSE new \o <<text[i]>> \o ReplaceFrom(text, old, new, i + 1))
    ELSE IF i > Len(text) THEN <<>>
    ELSE IF StartsAt(text, old, i, FALSE)
    THEN new \o ReplaceFrom(text, old, new, i + Len(old))
    ELSE <<text[i]>> \o ReplaceFrom(text, old, new, i + 1)

Replace(text, old, new) == ReplaceFrom(text, old, new, 1)

\* f"df_result['{col}']"
Ref(col) == <<"d", "f", "_", "r", "e", "s", "u", "l", "t", "[", "'">> \o LabelChars[col] \o <<"'", "]">>

\* for col in df.columns: expression = expression.replace(col, f"df_result['{col}']")
RECURSIVE Substitute(_, _, _)
Substitute(expression, columns, i) ==
    IF i > Len(columns) THEN expression
    ELSE Substitute(Replace(expression, LabelChars[columns[i]], Ref(columns[i])),
                    columns, i + 1)

\* A value of the evaluation: a scalar (one cell), a Series (a cell for
\* each row) or a list (a cell for each of its elements).
Scalar(x) == [scalar |-> TRUE, cells |-> <<x>>]
Series(cells) == [scalar |-> FALSE, cells |-> cells]
CellOf(v, r) == IF v.scalar THEN v.cells[1] ELSE v.cells[r]

\* The operands eval understands in a substituted expression: a reference
\* to a column of df_result and an integer literal.
IsOperand(df, text) ==
    \/ IsDigits(text)
    \/ \E col \in Range(df.columns) : text = Ref(col)

Operand(df, text) ==
    IF IsDigits(text) THEN Scalar(Number(DigitsValue(text)))
    ELSE LET col == CHOOSE col \in Range(df.columns) : text = Ref(col)
         IN  Series(Column(df, Pos(df, col)))

\* x + y and x - y for two cells: a null gives NaN, two texts concatenate
\* under +, and every other pair with a text raises TypeError.
ArithFails(x, op, y) ==
    /\ ~IsNull(x) /\ ~IsNull(y)
    /\ ~(IsNum(x) /\ IsNum(y))
    /\ ~(IsStr(x) /\ IsStr(y) /\ op = "+")

Arith(x, op, y) ==
    IF IsNull(x) \/ IsNull(y) THEN NULL
    ELSE IF IsStr(x) THEN Text(x.s \o y.s)
    ELSE LET sum == IF op = "+" THEN AddNum(x, y)
                    ELSE AddNum(x, [y EXCEPT !.n = -y.n])
         IN  [sum EXCEPT !.f = x.f \/ y.f]

\* The places of a binary operator " + " or " - " in text.
Splits(text) ==
    {i \in 2..(Len(text) - 3) :
        text[i] = " " /\ text[i + 1] \in {"+", "-"} /\ text[i + 2] = " "}

\* A variant of Eval that gives a null for whatever it is asked to
\* evaluate and never raises.
Eval_lenient(df, text) == [exc |-> NoExc, value |-> Scalar(NULL), input |-> df]

\* eval(expression) for the expression after substitution, over the rows
\* of df_result: [exc, value, input].  The expressions the model
\* understands are an operand, two operands joined by " + " or " - ",
\* a list of two digits, exit() and df.__init__(); a name that is no
\* operand raises NameError,
\* and the rest SyntaxError.  The local df is in the scope of eval: input
\* is the caller's table after the evaluation, which df.__init__() has
\* initialised anew, to no columns and no rows, and which gives None.
Eval(df, text) ==
    LET name(t) == /\ t # <<>> /\ ~IsOperand(df, t)
                   /\ \A q \in 1..Len(t) :
                         t[q] \notin Range(Digit) \cup {" ", "+", "-", "(", ")", "[", "]", "'", "."}
        unknown == \/ name(text)
                   \/ \E i \in Splits(text) :
                         LET l == SubSeq(text, 1, i - 1)
                             r == SubSeq(text, i + 3, Len(text))
                         IN  /\ name(l) \/ IsOperand(df, l)
                             /\ name(r) \/ IsOperand(df, r)
        binary == {i \in Splits(text) :
                      /\ IsOperand(df, SubSeq(text, 1, i - 1))
                      /\ IsOperand(df, SubSeq(text, i + 3, Len(text)))}
        i == CHOOSE i \in binary : TRUE
        x == Operand(df, SubSeq(text, 1, i - 1))
        y == Operand(df, SubSeq(text, i + 3, Len(text)))
        op == text[i + 1]
        rows == IF x.scalar /\ y.scalar THEN {1} ELSE 1..NRows(df)
        list == /\ Len(text) = 6
                /\ <<text[1], text[3], text[4], text[6]>> = <<"[", ",", " ", "]">>
                /\ IsDigits(<<text[2]>>) /\ IsDigits(<<text[5]>>)
    IN  IF list
        THEN [exc |-> NoExc,
              value |-> Series(<<Number(DigitsValue(<<text[2]>>)),
                                 Number(DigitsValue(<<text[5]>>))>>),
              input |-> df]
        ELSE IF text = <<"e", "x", "i", "t", "(", ")">>
        THEN [exc |-> BaseExc("SystemExit"), value |-> Scalar(NULL), input |-> df]
        ELSE IF text = <<"d", "f", ".", "_", "_", "i", "n", "i", "t", "_", "_", "(", ")">>
        THEN [exc |-> NoExc, value |-> Scalar(NULL),
              input |-> Table(<<>>, <<>>, <<>>)]
        ELSE IF IsOperand(df, text)
        THEN [exc |-> NoExc, value |-> Operand(df, text), input |-> df]
        ELSE IF binary = {}
        THEN [exc |-> Exc(IF unknown THEN "NameError" ELSE "SyntaxError", <<>>),
              value |-> Scalar(NULL), input |-> df]
        ELSE IF \E r \in rows : ArithFails(CellOf(x, r), op, CellOf(y, r))
        THEN [exc |-> Exc("TypeError", <<>>), value |-> Scalar(NULL), input |-> df]
        ELSE [exc |-> NoExc,
              value |-> IF x.scalar /\ y.scalar
                        THEN Scalar(Arith(x.cells[1], op, y.cells[1]))
                        ELSE Series([r \in 1..NRows(df) |->
                                        Arith(CellOf(x, r), op, CellOf(y, r))]),
              input |-> df]

\* The dtype pandas infers for the cells of a new column.
InferDType(cells) ==
    IF \E r \in 1..Len(cells) : cells[r].k = "str" THEN "object"
    ELSE IF \E r \in 1..Len(cells) : IsNull(cells[r]) \/ cells[r].f THEN "float64"
    ELSE "int64"

\* df[label] = cells: the column label replaced, or appended when new
Assign(df, label, dtype, cells) ==
    IF HasColumn(df, label) THEN SetColumn(df, Pos(df, label), dtype, cells)
    ELSE AddColumn(df, label, dtype, cells)

\* The table the caller gave, as eval(expression) leaves it.
EvalInput(df, expression) == Eval(df, Substitute(expression, df.columns, 1)).input

\* df_result[new_column] = value.  A None gives a column of None, of dtype
\* object.  A value with a length is set row by row and raises ValueError
\* when it is not as long as the index, except on a table without rows
\* (_ensure_valid_index): there a value of n > 0 elements gives the table
\* n rows, null in the columns it had, an int64 column turning float64.
create_calculated_column(history, df, new_column, expression, env) ==
    LET res == Eval(df, Substitute(expression, df.columns, 1))
        n == Len(res.value.cells)
        grown == Table(df.columns,
                       [j \in 1..NCols(df) |->
                           IF df.dtypes[j] = "int64" THEN "float64" ELSE df.dtypes[j]],
                       [r \in 1..n |-> [j \in 1..NCols(df) |-> NULL]])
        df_result == IF ~res.value.scalar /\ NRows(df) = 0 /\ n > 0 THEN grown ELSE df
        cells == [r \in 1..NRows(df_result) |-> CellOf(res.value, r)]
        dtype == IF res.value = Scalar(NULL) THEN "object" ELSE InferDType(cells)
        att ==
            IF res.exc # NoExc THEN Raise(df, res.exc)
            ELSE IF ~res.value.scalar /\ n # NRows(df_result)
            THEN Raise(df, Exc("ValueError", <<>>))
            ELSE Done("CREATE_COLUMN",
                      Assign(df_result, new_column, dtype, cells),
                      Details("Created with expression", <<new_column>>, "", 0),
                      Msg("Created calculated column", <<new_column>>, 0))
    IN  Complete("Error creating calculated column", att, df, history, env)

----------------------------------------------------------------------------
(* text_operations                                                         *)

LowerCase ==
    <<"a", "b", "c", "d", "e", "f", "g", "h", "i", "j", "k", "l", "m", "n",
      "o", "p", "q", "r", "s", "t", "u", "v", "w", "x", "y", "z">>

UpperCase ==
    <<"A", "B", "C", "D", "E", "F", "G", "H", "I", "J", "K", "L", "M", "N",
      "O", "P", "Q", "R", "S", "T", "U", "V", "W", "X", "Y", "Z">>

IsLetter(ch) == ch \in Range(LowerCase) \cup Range(UpperCase)

ToUpper(ch) ==
    IF ch \in Range(LowerCase)
    THEN UpperCase[CHOOSE i \in 1..26 : LowerCase[i] = ch] ELSE ch

ToLower(ch) ==
    IF ch \in Range(UpperCase)
    THEN LowerCase[CHOOSE i \in 1..26 : UpperCase[i] = ch] ELSE ch

Upper(text) == [q \in 1..Len(text) |-> ToUpper(text[q])]      \* str.upper
Lower(text) == [q \in 1..Len(text) |-> ToLower(text[q])]      \* str.lower

\* str.title: a letter after a non-letter in upper case, the others lower
Title(text) ==
    [q \in 1..Len(text) |->
        IF q = 1 \/ ~IsLetter(text[q - 1]) THEN ToUpper(text[q])
        ELSE ToLower(text[q])]

\* str.strip
Strip(text) ==
    LET solid == {q \in 1..Len(text) : text[q] # " "}
        first == CHOOSE q \in solid : \A p \in solid : q <= p
        last == CHOOSE q \in solid : \A p \in solid : q >= p
    IN  IF solid = {} THEN <<>> ELSE SubSeq(text, first, last)

\* Series.str.extract(pattern) for a pattern with one capture group,
\* pre(group)post: the text the group matches at the first match, or NaN.
Extract(text, pattern) ==
    LET open == CHOOSE q \in 1..Len(pattern) : pattern[q] = "("
        close == CHOOSE q \in 1..Len(pattern) : pattern[q] = ")"
        pre == SubSeq(pattern, 1, open - 1)
        group == SubSeq(pattern, open + 1, close - 1)
        post == SubSeq(pattern, close + 1, Len(pattern))
        hits == {i \in 1..(Len(text) + 1) :
                    StartsAt(text, pre \o group \o post, i, TRUE)}
        i == CHOOSE i \in hits : \A h \in hits : i <= h
    IN  IF hits = {} THEN NULL
        ELSE Text(SubSeq(text, i + Len(pre), i + Len(pre) + Len(group) - 1))

\* f"{column}_extracted"
ExtractedLabel ==
    [a |-> "a_extracted", b |-> "b_extracted", c |-> "c_extracted"]

TextOperations == {"upper", "lower", "title", "strip", "replace", "extract"}

\* kwargs: old_value, new_value and pattern, each '' when not given
text_operations(history, df, column, operation, kwargs, env) ==
    LET j == Pos(df, column)
        text(r) == AsText(df.rows[r][j], df.dtypes[j])
        mapped(f(_)) ==
            SetColumn(df, j, "object", [r \in 1..NRows(df) |-> Text(f(text(r)))])
        replaced(t) == Replace(t, kwargs.old_value, kwargs.new_value)
        pattern == kwargs.pattern
        details ==
            CASE operation = "upper" -> Details("Converted to uppercase", <<column>>, "", 0)
              [] operation = "lower" -> Details("Converted to lowercase", <<column>>, "", 0)
              [] operation = "title" -> Details("Converted to title case", <<column>>, "", 0)
              [] operation = "strip" -> Details("Stripped whitespace from", <<column>>, "", 0)
              [] operation = "replace" -> Details("Replaced in", <<column>>, "", 0)
              [] operation = "extract" -> Details("Extracted pattern from", <<column>>, "", 0)
        df_result ==
            CASE operation = "upper" -> mapped(Upper)
              [] operation = "lower" -> mapped(Lower)
              [] operation = "title" -> mapped(Title)
              [] operation = "strip" -> mapped(Strip)
              [] operation = "replace" -> mapped(replaced)
              [] operation = "extract" ->
                   Assign(df, ExtractedLabel[column], "object",
                          [r \in 1..NRows(df) |-> Extract(text(r), pattern)])
        att ==
            IF ~HasColumn(df, column)
            THEN Early(df, Msg("Column not found", <<column>>, 0))
            ELSE IF operation \notin TextOperations
            THEN Early(df, MsgArg("Unsupported text operation", <<>>, 0, operation))
            ELSE IF operation = "extract" /\ ~Compiles(pattern)
            THEN Raise(df, Exc("re.error", <<>>))
            ELSE IF operation = "extract" /\ Count(pattern, "(") # 1
            THEN \* no capture group, or a frame of several columns set to
                 \* one column
                 Raise(df, Exc("ValueError", <<>>))
            ELSE Done("TEXT_OPERATION", df_result, details,
                      MsgArg("Applied operation to", <<column>>, 0, operation))
    IN  Complete("Error in text operation", att, df, history, env)

----------------------------------------------------------------------------
(* fix_data_typos                                                          *)

\* A variant of ReplaceCell that applies the corrections (two at most) one
\* after the other, each to what the one before has left.
ReplaceCell_chained(x, corrections) ==
    LET step(y, i) == IF i <= Len(corrections) /\ CellEq(y, corrections[i].key)
                      THEN corrections[i].value ELSE y
    IN  step(step(x, 1), 2)

\* Series.replace(corrections) for one cell: every key is looked up in the
\* cells as they were, so that a replacement is not replaced again.
ReplaceCell(x, corrections) ==
    LET hits == {i \in 1..Len(corrections) : CellEq(x, corrections[i].key)}
    IN  IF hits = {} THEN x ELSE corrections[CHOOSE i \in hits : TRUE].value

fix_data_typos(history, df, column, corrections, env) ==
    LET j == Pos(df, column)
        cells == [r \in 1..NRows(df) |-> ReplaceCell(df.rows[r][j], corrections)]
        changed == \E r \in 1..NRows(df) : cells[r] # df.rows[r][j]
        dtype == IF changed /\ df.dtypes[j] # "category"
                 THEN (IF df.dtypes[j] = "object" THEN "object"
                       ELSE InferDType(cells))
                 ELSE df.dtypes[j]
        \* changes_made += (df[column] == old_val).sum()
        changes_made ==
            Cardinality({<<i, r>> \in (1..Len(corrections)) \X (1..NRows(df)) :
                            CellEq(df.rows[r][j], corrections[i].key)})
        att ==
            IF ~HasColumn(df, column)
            THEN Early(df, Msg("Error: Column not found", <<column>>, 0))
            ELSE Done("FIX_DATA_TYPOS", SetColumn(df, j, dtype, cells),
                      Details("Fixed data typos in", <<column>>, "", changes_made),
                      Msg2("Successfully fixed typos in column", <<column>>,
                           Len(corrections), changes_made))
    IN  Complete("Error fixing data typos", att, df, history, env)

----------------------------------------------------------------------------
(* suggest_typo_fixes                                                      *)

\* SequenceMatcher(None, a, b): the number of characters in the matching
\* blocks of a[alo..ahi] and b[blo..bhi].  The longest block is taken, of
\* the longest the one that starts earliest in a and then earliest in b,
\* and the pieces on its left and on its right are matched the same way.
RECURSIVE Matching(_, _, _, _, _, _)
Matching(a, b, alo, ahi, blo, bhi) ==
    LET blocks == {blk \in (alo..ahi) \X (blo..bhi) \X (1..(ahi - alo + 1)) :
                      /\ blk[1] + blk[3] - 1 <= ahi
                      /\ blk[2] + blk[3] - 1 <= bhi
                      /\ \A q \in 0..(blk[3] - 1) : a[blk[1] + q] = b[blk[2] + q]}
        longest == CHOOSE blk \in blocks :
                      \A o \in blocks :
                          \/ o[3] < blk[3]
                          \/ o[3] = blk[3] /\ blk[1] < o[1]
                          \/ o[3] = blk[3] /\ blk[1] = o[1] /\ blk[2] <= o[2]
    IN  IF blocks = {} THEN 0
        ELSE longest[3]
               + Matching(a, b, alo, longest[1] - 1, blo, longest[2] - 1)
               + Matching(a, b, longest[1] + longest[3], ahi,
                          longest[2] + longest[3], bhi)

\* A variant of Ratio that leaves out the factor 2.
Ratio_unscaled(x, word) ==
    IF Len(x) + Len(word) = 0 THEN [num |-> 1, den |-> 1]
    ELSE [num |-> Matching(x, word, 1, Len(x), 1, Len(word)),
          den |-> Len(x) + Len(word)]

\* SequenceMatcher(None, x, word).ratio() = 2.0 * matches / length, as the
\* fraction num/den (1.0 when both are empty)
Ratio(x, word) ==
    IF Len(x) + Len(word) = 0 THEN [num |-> 1, den |-> 1]
    ELSE [num |-> 2 * Matching(x, word, 1, Len(x), 1, Len(word)),
          den |-> Len(x) + Len(word)]

\* Two variants of get_close_matches: one that takes the best n whatever
\* their ratio, and one that returns every possibility that reaches the
\* cutoff, however many.
get_best_matches(word, possibilities, n, cutoff) ==
    LET before(x, y) ==
            \/ Ratio(x, word).num * Ratio(y, word).den > Ratio(y, word).num * Ratio(x, word).den
            \/ /\ Ratio(x, word).num * Ratio(y, word).den = Ratio(y, word).num * Ratio(x, word).den
               /\ TextLess(y, x)
        rank(x) == Cardinality({y \in possibilities : before(y, x)})
        len == IF Cardinality(possibilities) < n THEN Cardinality(possibilities) ELSE n
    IN  [i \in 1..len |-> CHOOSE x \in possibilities : rank(x) = i - 1]

get_every_match(word, possibilities, n, cutoff) ==
    LET good == {x \in possibilities :
                    10 * Ratio(x, word).num >= cutoff * Ratio(x, word).den}
        before(x, y) ==
            \/ Ratio(x, word).num * Ratio(y, word).den > Ratio(y, word).num * Ratio(x, word).den
            \/ /\ Ratio(x, word).num * Ratio(y, word).den = Ratio(y, word).num * Ratio(x, word).den
               /\ TextLess(y, x)
        rank(x) == Cardinality({y \in good : before(y, x)})
    IN  [i \in 1..Cardinality(good) |-> CHOOSE x \in good : rank(x) = i - 1]

\* difflib.get_close_matches(word, possibilities, n, cutoff), the cutoff
\* in tenths: the possibilities of ratio >= cutoff, the best n of them,
\* best first, those of equal ratio in descending order as texts.
get_close_matches(word, possibilities, n, cutoff) ==
    LET score == [x \in possibilities |-> Ratio(x, word)]
        good == {x \in possibilities : 10 * score[x].num >= cutoff * score[x].den}
        before(x, y) ==
            \/ score[x].num * score[y].den > score[y].num * score[x].den
            \/ /\ score[x].num * score[y].den = score[y].num * score[x].den
               /\ TextLess(y, x)
        rank(x) == Cardinality({y \in good : before(y, x)})
        len == IF Cardinality(good) < n THEN Cardinality(good) ELSE n
    IN  [i \in 1..len |-> CHOOSE x \in good : rank(x) = i - 1]

common_words ==
    {<<"n", "a", "m", "e">>, <<"i", "d">>, <<"d", "a", "t", "e">>,
     <<"t", "i", "m", "e">>, <<"p", "r", "i", "c", "e">>,
     <<"a", "m", "o", "u", "n", "t">>, <<"c", "o", "u", "n", "t">>,
     <<"t", "o", "t", "a", "l">>, <<"v", "a", "l", "u", "e">>,
     <<"d", "e", "s", "c", "r", "i", "p", "t", "i", "o", "n">>}

\* column = None
None == "None"

\* DataTransformer.suggest_typo_fixes: the two dictionaries, each a
\* function from its keys to the lists of candidates.
suggest_typo_fixes(df, column) ==
    LET lower(col) == Lower(LabelChars[col])
        matches == [col \in Range(df.columns) |->
                       get_close_matches(lower(col), common_words, 3, 6)]
        typos == {col \in Range(df.columns) :
                     matches[col] # <<>> /\ lower(col) \notin common_words}
        j == Pos(df, column)
        values == {df.rows[r][j] : r \in {r \in 1..NRows(df) : ~IsNull(df.rows[r][j])}}
        value_counts(v) == Cardinality({r \in 1..NRows(df) : df.rows[r][j] = v})
        str(v) == AsText(v, "object")
        frequent == {str(v) : v \in {v \in values : value_counts(v) > 2}}
        close == [v \in {v \in values : value_counts(v) <= 2} |->
                     get_close_matches(str(v), frequent, 2, 8)]
        rare == {v \in DOMAIN close : close[v] # <<>>}
    IN  [column_suggestions |->
            IF column = None THEN [col \in typos |-> matches[col]] ELSE <<>>,
         data_suggestions |->
            IF column # None /\ HasColumn(df, column) /\ df.dtypes[j] = "object"
            THEN [key \in {str(v) : v \in rare} |->
                     close[CHOOSE v \in rare : str(v) = key]]
            ELSE <<>>]

----------------------------------------------------------------------------
(* The ledger's readers.                                                   *)

\* DataTransformer.get_transformation_history
get_transformation_history(history) == history

\* DataTransformer.clear_history
clear_history(history) == <<>>

----------------------------------------------------------------------------
(* The tables and the arguments of the model.                              *)

Sessions == {"s1", "s2"}

NY == Text(<<"N", "Y">>)
Ny == Text(<<"N", "y">>)

\* A table as read from a file, with columns a (numbers) and b (texts):
\* a column of numbers is int64 when it has no null and float64 otherwise.
Extracted(rows) ==
    LET float == \E r \in 1..Len(rows) : IsNull(rows[r][1])
    IN  Table(<<"a", "b">>,
              <<IF float THEN "float64" ELSE "int64", "object">>,
              [r \in 1..Len(rows) |->
                  <<IF float /\ IsNum(rows[r][1])
                    THEN [rows[r][1] EXCEPT !.f = TRUE] ELSE rows[r][1],
                    rows[r][2]>>])

RowsUpTo(n) ==
    UNION {[1..m -> {<<x, y>> : x \in {NULL, Number(1), Number(2)},
                                y \in {NULL, NY, Ny}}] : m \in 0..n}

\* Every table of at most MaxRows rows, and a table that already has a
\* column of the label an extract on b gives its result.
Tables ==
    {Extracted(rows) : rows \in RowsUpTo(MaxRows)}
        \cup {AddColumn(Extracted(<<<<Number(1), NY>>>>), "b_extracted", "object", <<Ny>>)}

\* The tables of the typo suggestions: tables of one or two text columns
\* whose labels are near to, among or far from the common words, and
\* tables whose column b holds each of five city names up to MaxCount
\* times.
NamedTables ==
    LET labels == {"nam", "Name", "xyz123", "tame", "tount", "atume", "a"}
    IN  {Table(<<x>>, <<"object">>, <<>>) : x \in labels}
          \cup {Table(<<xy[1], xy[2]>>, <<"object", "object">>, <<>>) :
                   xy \in {xy \in labels \X labels : xy[1] # xy[2]}}

Cities ==
    <<Text(<<"T", "e", "x", "a", "s">>), Text(<<"T", "e", "x", "a", "s", "s">>),
      Text(<<"T", "e", "x", "a", "a", "s">>), Text(<<"T", "e", "x", "s">>),
      Text(<<"O", "h", "i", "o">>)>>

\* The table whose column b holds Cities[k] in counts[k] rows.
Counted(counts) ==
    LET places == {pl \in (1..Len(Cities)) \X (1..MaxCount) : pl[2] <= counts[pl[1]]}
        rank(pl) == Cardinality({o \in places :
                                    o[1] < pl[1] \/ (o[1] = pl[1] /\ o[2] < pl[2])})
    IN  Table(<<"b">>, <<"object">>,
              [r \in 1..Cardinality(places) |->
                  <<Cities[(CHOOSE pl \in places : rank(pl) = r - 1)[1]]>>])

CountedTables == {Counted(counts) : counts \in [1..Len(Cities) -> 0..MaxCount]}

\* The table the sessions of a run of several calls extract.
Loaded == {Extracted(<<<<Number(1), NY>>, <<Number(1), Ny>>>>)}

----------------------------------------------------------------------------
(* The calls.  A session calls the methods of the one DataTransformer of   *)
(* the process (transform.py, `transformer = DataTransformer()`) the way   *)
(* the transform page does: on current_data, keeping the table returned.   *)

\* What the last call was given and what it gave: session, op, the table
\* df as it was given and as the call left it (input), its parameters
\* (params), of them the column labels it referenced and its text argument
\* (arg), the ledger before it (before), the outcome (see Returned), the
\* outcome a sink that never fails gives for the same call (ideal), and
\* what get_transformation_history or suggest_typo_fixes returned
\* (listing).
NoCall ==
    [session |-> "", op |-> "", df |-> Table(<<>>, <<>>, <<>>),
     input |-> Table(<<>>, <<>>, <<>>),
     params |-> <<>>, referenced |-> <<>>, arg |-> "", before |-> <<>>,
     returned |-> TRUE,
     table |-> Table(<<>>, <<>>, <<>>), same_ref |-> TRUE,
     message |-> Msg("", <<>>, 0), ok |-> FALSE, sink |-> <<>>, exc |-> "",
     ideal |-> [returned |-> TRUE, ok |-> FALSE,
                table |-> Table(<<>>, <<>>, <<>>)],
     listing |-> <<>>]

\* datetime.now().strftime("%Y-%m-%d %H:%M:%S") gives the second of the
\* wall clock: the second of the last reading, or a later one.
Clock == {now, now + 1}

Env(faults, t) == [timestamp |-> t, faults |-> faults]

\* A run calls until MaxHistory records have been appended; a run of
\* single calls (ctx.single) makes one call.  The tables of the model have
\* distinct labels.
CanCall(s, ctx) ==
    /\ ctx.single => ret.op = ""
    /\ Len(appended_by) < MaxHistory
    /\ UniqueColumns(current_data[s])

\* The state after the call: out is what the method gives with the sink
\* of the run, ideal what it gives with a sink that never fails, and input
\* the table the caller gave as the call leaves it; a call that returns
\* df itself returns that table.
Call(s, op, params, referenced, arg, t, out, ideal, input) ==
    /\ ret' = [session |-> s, op |-> op, df |-> current_data[s], input |-> input,
               params |-> params, referenced |-> referenced, arg |-> arg,
               before |-> transformation_history,
               returned |-> out.returned,
               table |-> IF out.same_ref THEN input ELSE out.table,
               same_ref |-> out.same_ref, message |-> out.message,
               ok |-> out.ok, sink |-> out.sink, exc |-> out.exc,
               ideal |-> [returned |-> ideal.returned, ok |-> ideal.ok,
                          table |-> ideal.table],
               listing |-> <<>>]
    /\ transformation_history' = out.history
    /\ appended_by' =
           appended_by \o [i \in 1..(Len(out.history) - Len(transformation_history)) |-> s]
    /\ current_data' =
           IF out.returned
           THEN [current_data EXCEPT ![s] = IF out.same_ref THEN input ELSE out.table]
           ELSE current_data
    /\ now' = IF Len(out.history) > Len(transformation_history) THEN t ELSE now

remove_duplicates_call(s, ctx) ==
    /\ CanCall(s, ctx)
    /\ \E p \in ctx.menu.remove_duplicates, faults \in ctx.faults, t \in Clock :
          Call(s, "remove_duplicates", p, p.columns, p.keep, t,
               remove_duplicates(transformation_history, current_data[s],
                                 p.columns, p.keep, Env(faults, t)),
               remove_duplicates(transformation_history, current_data[s],
                                 p.columns, p.keep, Env({}, t)),
               current_data[s])

handle_missing_values_call(s, ctx) ==
    /\ CanCall(s, ctx)
    /\ \E p \in ctx.menu.handle_missing_values, faults \in ctx.faults, t \in Clock :
          Call(s, "handle_missing_values", p, p.columns, p.method, t,
               handle_missing_values(transformation_history, current_data[s],
                                     p.method, p.columns, p.fill_value, Env(faults, t)),
               handle_missing_values(transformation_history, current_data[s],
                                     p.method, p.columns, p.fill_value, Env({}, t)),
               current_data[s])

filter_data_call(s, ctx) ==
    /\ CanCall(s, ctx)
    /\ \E p \in ctx.menu.filter_data, faults \in ctx.faults, t \in Clock :
          Call(s, "filter_data", p, <<p.column>>, p.operator, t,
               filter_data(transformation_history, current_data[s],
                           p.column, p.operator, p.value, Env(faults, t)),
               filter_data(transformation_history, current_data[s],
                           p.column, p.operator, p.value, Env({}, t)),
               current_data[s])

sort_data_call(s, ctx) ==
    /\ CanCall(s, ctx)
    /\ \E p \in ctx.menu.sort_data, faults \in ctx.faults, t \in Clock :
          \E ties \in Orders(current_data[s], p.columns) :
             Call(s, "sort_data", p, p.columns, "", t,
                  sort_data(transformation_history, current_data[s],
                            p.columns, p.ascending, ties, Env(faults, t)),
                  sort_data(transformation_history, current_data[s],
                            p.columns, p.ascending, ties, Env({}, t)),
               current_data[s])

rename_columns_call(s, ctx) ==
    /\ CanCall(s, ctx)
    /\ \E p \in ctx.menu.rename_columns, faults \in ctx.faults, t \in Clock :
          Call(s, "rename_columns", p, Keys(p), "", t,
               rename_columns(transformation_history, current_data[s], p, Env(faults, t)),
               rename_columns(transformation_history, current_data[s], p, Env({}, t)),
               current_data[s])

drop_columns_call(s, ctx) ==
    /\ CanCall(s, ctx)
    /\ \E p \in ctx.menu.drop_columns, faults \in ctx.faults, t \in Clock :
          Call(s, "drop_columns", p, p, "", t,
               drop_columns(transformation_history, current_data[s], p, Env(faults, t)),
               drop_columns(transformation_history, current_data[s], p, Env({}, t)),
               current_data[s])

convert_data_types_call(s, ctx) ==
    /\ CanCall(s, ctx)
    /\ \E p \in ctx.menu.convert_data_types, faults \in ctx.faults, t \in Clock :
          Call(s, "convert_data_types", p, Keys(p), "", t,
               convert_data_types(transformation_history, current_data[s], p, Env(faults, t)),
               convert_data_types(transformation_history, current_data[s], p, Env({}, t)),
               current_data[s])

create_calculated_column_call(s, ctx) ==
    /\ CanCall(s, ctx)
    /\ \E p \in ctx.menu.create_calculated_column, faults \in ctx.faults, t \in Clock :
          Call(s, "create_calculated_column", p, <<>>, "", t,
               create_calculated_column(transformation_history, current_data[s],
                                        p.new_column, p.expression, Env(faults, t)),
               create_calculated_column(transformation_history, current_data[s],
                                        p.new_column, p.expression, Env({}, t)),
               EvalInput(current_data[s], p.expression))

text_operations_call(s, ctx) ==
    /\ CanCall(s, ctx)
    /\ \E p \in ctx.menu.text_operations, faults \in ctx.faults, t \in Clock :
          Call(s, "text_operations", p, <<p.column>>, p.operation, t,
               text_operations(transformation_history, current_data[s],
                               p.column, p.operation, p.kwargs, Env(faults, t)),
               text_operations(transformation_history, current_data[s],
                               p.column, p.operation, p.kwargs, Env({}, t)),
               current_data[s])

fix_column_typos_call(s, ctx) ==
    /\ CanCall(s, ctx)
    /\ \E p \in ctx.menu.fix_column_typos, faults \in ctx.faults, t \in Clock :
          Call(s, "fix_column_typos", p, Keys(p), "", t,
               fix_column_typos(transformation_history, current_data[s], p, Env(faults, t)),
               fix_column_typos(transformation_history, current_data[s], p, Env({}, t)),
               current_data[s])

fix_data_typos_call(s, ctx) ==
    /\ CanCall(s, ctx)
    /\ \E p \in ctx.menu.fix_data_typos, faults \in ctx.faults, t \in Clock :
          Call(s, "fix_data_typos", p, <<p.column>>, "", t,
               fix_data_typos(transformation_history, current_data[s],
                              p.column, p.corrections, Env(faults, t)),
               fix_data_typos(transformation_history, current_data[s],
                              p.column, p.corrections, Env({}, t)),
               current_data[s])

\* transformer.get_transformation_history(), as the dashboard calls it
get_transformation_history_call(s) ==
    /\ ret' = [NoCall EXCEPT !.session = s,
                             !.op = "get_transformation_history",
                             !.before = transformation_history,
                             !.listing = get_transformation_history(transformation_history)]
    /\ UNCHANGED <<current_data, transformation_history, appended_by, now>>

\* transformer.clear_history()
clear_history_call(s) ==
    /\ transformation_history' = clear_history(transformation_history)
    /\ UNCHANGED appended_by
    /\ ret' = [NoCall EXCEPT !.session = s, !.op = "clear_history",
                             !.before = transformation_history]
    /\ UNCHANGED <<current_data, now>>

\* transformer.suggest_typo_fixes(df, column), as the Fix Typos tab calls
\* it: without a column, or with one of the table's text columns.  It
\* reads df and builds a dictionary of its own; no statement of it touches
\* the ledger.
suggest_typo_fixes_call(s) ==
    /\ \E column \in {None} \cup {c \in Range(current_data[s].columns) :
                                      current_data[s].dtypes[Pos(current_data[s], c)] = "object"} :
          ret' = [NoCall EXCEPT !.session = s, !.op = "suggest_typo_fixes",
                                !.df = current_data[s],
                                !.arg = column,
                                !.before = transformation_history,
                                !.listing = suggest_typo_fixes(current_data[s], column)]
    /\ UNCHANGED <<current_data, transformation_history, appended_by, now>>

\* The button Start New Pipeline of the load page, followed by the next
\* extraction: the session's tables and its transformation_log are reset,
\* the transformer is not touched.
start_new_pipeline(s) ==
    /\ \E df \in Loaded : current_data' = [current_data EXCEPT ![s] = df]
    /\ ret' = [NoCall EXCEPT !.session = s, !.op = "start_new_pipeline",
                             !.before = transformation_history]
    /\ UNCHANGED <<transformation_history, appended_by, now>>

----------------------------------------------------------------------------
(* The arguments of the calls.                                             *)

NoKwargs == [old_value |-> <<>>, new_value |-> <<>>, pattern |-> <<>>]

\* Every kind of argument, for the runs of single calls.
Arguments ==
    [remove_duplicates |->
        [columns : {<<>>, <<"a">>, <<"b">>, <<"a", "b">>, <<"zz">>,
                    <<"a", "zz", "yy">>},
         keep : {"first", "last", "False", "bogus"}],
     handle_missing_values |->
        [method : KnownMethods \cup {"bogus"},
         columns : {<<>>, <<"a">>, <<"b">>, <<"zz", "a", "yy">>},
         fill_value : {NULL}]
        \cup [method : {"fill_value"},
              columns : {<<>>, <<"a">>, <<"b">>},
              fill_value : {Number(0), Text(<<"x">>), NaN}],
     filter_data |->
        [column : {"a", "b", "zz"},
         operator : ComparisonOperators \cup TextOperators \cup {"bogus"},
         value : {Number(1), Text(<<"N">>), Text(<<"n">>), Text(<<"(">>)}],
     sort_data |->
        [columns : {<<>>, <<"a">>, <<"b">>, <<"a", "b">>, <<"b", "a">>,
                    <<"zz", "a", "yy">>},
         ascending : {NoFlags, Flags(<<TRUE>>), Flags(<<FALSE>>),
                      Flags(<<FALSE, TRUE>>)}],
     rename_columns |->
        {<<>>, <<Item("a", "c")>>, <<Item("a", "b")>>,
         <<Item("a", "b"), Item("b", "a")>>,
         <<Item("zz", "c"), Item("a", "c"), Item("yy", "c")>>},
     drop_columns |->
        {<<>>, <<"a">>, <<"b", "a">>, <<"zz">>, <<"a", "zz", "yy">>},
     convert_data_types |->
        {<<Item(col, type)>> : col \in {"a", "b"},
                               type \in SupportedTypes \cup {"bogus"}}
        \cup {<<>>, <<Item("zz", "int")>>,
              <<Item("zz", "int"), Item("a", "string"), Item("yy", "float")>>,
              <<Item("a", "float"), Item("b", "int")>>},
     create_calculated_column |->
        [new_column : {"c", "a"},
         expression : {<<"a", " ", "+", " ", "b">>, <<"a", " ", "+", " ", "a">>, <<"a", " ", "-", " ", "1">>, <<"b", " ", "+", " ", "b">>,
                       <<"z", "z", " ", "+", " ", "1">>, <<"a", " ", "+">>, <<"e", "x", "i", "t", "(", ")">>, <<"1", " ", "+", " ", "2">>,
                       <<"d", "f", ".", "_", "_", "i", "n", "i", "t", "_", "_", "(", ")">>,
                       <<"[", "1", ",", " ", "2", "]">>}],
     text_operations |->
        [column : {"a", "b", "zz"},
         operation : {"upper", "lower", "title", "strip", "bogus"},
         kwargs : {NoKwargs}]
        \cup [column : {"a", "b", "zz"}, operation : {"replace"},
              kwargs : {[NoKwargs EXCEPT !.old_value = <<"N">>,
                                         !.new_value = <<"n", "N">>],
                        NoKwargs}]
        \cup [column : {"a", "b"}, operation : {"extract"},
              kwargs : {[NoKwargs EXCEPT !.pattern = <<"N", "(", ".", ")">>],
                        [NoKwargs EXCEPT !.pattern = <<"N">>],
                        [NoKwargs EXCEPT !.pattern = <<"(">>]}],
     fix_column_typos |->
        {<<>>, <<Item("a", "c")>>, <<Item("a", "b")>>,
         <<Item("a", "b"), Item("b", "c")>>, <<Item("a", "b"), Item("b", "a")>>,
         <<Item("zz", "c"), Item("yy", "a")>>},
     fix_data_typos |->
        [column : {"a", "b", "zz"},
         corrections : {<<>>, <<Item(Ny, NY)>>,
                        <<Item(Ny, NY), Item(NY, Ny)>>,
                        <<Item(Ny, NY), Item(NY, Text(<<"N">>))>>,
                        <<Item(NY, NY)>>,
                        <<Item(Number(1), Number(2))>>}]]

\* A few arguments, for the runs of several calls.
Few ==
    [remove_duplicates |->
        [columns : {<<"a">>}, keep : {"first"}],
     handle_missing_values |->
        [method : {"bogus"}, columns : {<<>>}, fill_value : {NULL}],
     filter_data |->
        [column : {"a"}, operator : {"bogus"}, value : {Number(1)}],
     sort_data |->
        [columns : {<<"a">>}, ascending : {Flags(<<FALSE, TRUE>>)}],
     rename_columns |-> {<<Item("b", "c")>>},
     drop_columns |-> {<<"zz", "yy">>},
     convert_data_types |-> {<<Item("zz", "int")>>},
     create_calculated_column |->
        [new_column : {"c"}, expression : {<<"a", " ", "+">>}],
     text_operations |->
        [column : {"zz"}, operation : {"lower"}, kwargs : {NoKwargs}],
     fix_column_typos |-> {<<Item("c", "b")>>},
     fix_data_typos |->
        [column : {"zz"}, corrections : {<<Item(Ny, NY)>>}]]

----------------------------------------------------------------------------
(* The runs.                                                               *)

\* Several calls from two sessions, the sink working.
Run == [menu |-> Few, faults |-> {{}}, single |-> FALSE]

\* One call with any argument on any table, the sink working.
Single == [menu |-> Arguments, faults |-> {{}}, single |-> TRUE]

\* One call with any argument, where any of the calls of
\* logger.log_etl_step may raise.
FaultySink == [menu |-> Arguments, faults |-> SUBSET {1, 2}, single |-> TRUE]

Fresh ==
    /\ transformation_history = <<>>
    /\ appended_by = <<>>
    /\ ret = NoCall
    /\ now = 0

Init ==
    /\ \E df \in Loaded : current_data = [s \in Sessions |-> df]
    /\ Fresh

Next ==
    \E s \in Sessions :
       \/ remove_duplicates_call(s, Run)
       \/ handle_missing_values_call(s, Run)
       \/ filter_data_call(s, Run)
       \/ sort_data_call(s, Run)
       \/ rename_columns_call(s, Run)
       \/ drop_columns_call(s, Run)
       \/ convert_data_types_call(s, Run)
       \/ create_calculated_column_call(s, Run)
       \/ text_operations_call(s, Run)
       \/ fix_column_typos_call(s, Run)
       \/ fix_data_typos_call(s, Run)
       \/ get_transformation_history_call(s)
       \/ clear_history_call(s)
       \/ suggest_typo_fixes_call(s)
       \/ start_new_pipeline(s)

Spec == Init /\ [][Next]_vars

\* The runs in which no session starts a new pipeline: the sessions keep
\* to the transform page, where current_data changes only by the table a
\* catalog operation returns.
NextTransformPage ==
    \E s \in Sessions :
       \/ remove_duplicates_call(s, Run)
       \/ handle_missing_values_call(s, Run)
       \/ filter_data_call(s, Run)
       \/ sort_data_call(s, Run)
       \/ rename_columns_call(s, Run)
       \/ drop_columns_call(s, Run)
       \/ convert_data_types_call(s, Run)
       \/ create_calculated_column_call(s, Run)
       \/ text_operations_call(s, Run)
       \/ fix_column_typos_call(s, Run)
       \/ fix_data_typos_call(s, Run)
       \/ get_transformation_history_call(s)
       \/ clear_history_call(s)

SpecTransformPage == Init /\ [][NextTransformPage]_vars

\* A ledger that holds the record of an earlier DROP_COLUMNS of session s2.
Earlier ==
    log_transformation(<<>>, "DROP_COLUMNS",
                       Details("Dropped columns", <<"c">>, "", 0), 2, 2, 3, 2, 0)

\* Any table, and a ledger that is empty or holds an earlier record.
InitSingle ==
    /\ \E df \in Tables : current_data = [s \in Sessions |-> df]
    /\ \/ Fresh
       \/ /\ transformation_history = Earlier
          /\ appended_by = <<"s2">>
          /\ ret = NoCall
          /\ now = 0

NextSingle ==
    \E s \in {"s1"} :
       \/ remove_duplicates_call(s, Single)
       \/ handle_missing_values_call(s, Single)
       \/ filter_data_call(s, Single)
       \/ sort_data_call(s, Single)
       \/ rename_columns_call(s, Single)
       \/ drop_columns_call(s, Single)
       \/ convert_data_types_call(s, Single)
       \/ create_calculated_column_call(s, Single)
       \/ text_operations_call(s, Single)
       \/ fix_column_typos_call(s, Single)
       \/ fix_data_typos_call(s, Single)

SpecSingle == InitSingle /\ [][NextSingle]_vars

\* One request for suggestions on a table of the typo suggestions.
InitSuggest ==
    /\ \E df \in NamedTables \cup CountedTables : current_data = [s \in Sessions |-> df]
    /\ Fresh

NextSuggest == \E s \in {"s1"} : suggest_typo_fixes_call(s)

SpecSuggest == InitSuggest /\ [][NextSuggest]_vars

NextFaultySink ==
    \E s \in {"s1"} :
       \/ remove_duplicates_call(s, FaultySink)
       \/ handle_missing_values_call(s, FaultySink)
       \/ filter_data_call(s, FaultySink)
       \/ sort_data_call(s, FaultySink)
       \/ rename_columns_call(s, FaultySink)
       \/ drop_columns_call(s, FaultySink)
       \/ convert_data_types_call(s, FaultySink)
       \/ create_calculated_column_call(s, FaultySink)
       \/ text_operations_call(s, FaultySink)
       \/ fix_column_typos_call(s, FaultySink)
       \/ fix_data_typos_call(s, FaultySink)

InitFaultySink ==
    /\ \E df \in {Extracted(<<<<Number(1), NY>>, <<Number(1), Ny>>>>),
                   Extracted(<<<<NULL, NY>>, <<Number(2), NY>>>>)} :
          current_data = [s \in Sessions |-> df]
    /\ \/ Fresh
       \/ /\ transformation_history = Earlier
          /\ appended_by = <<"s2">>
          /\ ret = NoCall
          /\ now = 0

SpecFaultySink == InitFaultySink /\ [][NextFaultySink]_vars

----------------------------------------------------------------------------
(* The properties.                                                         *)

\* The eleven operations of the catalog.
CatalogOperations ==
    {"remove_duplicates", "handle_missing_values", "filter_data", "sort_data",
     "rename_columns", "drop_columns", "convert_data_types",
     "create_calculated_column", "text_operations", "fix_column_typos",
     "fix_data_typos"}

\* C1: every catalog operation returns a (table, message) pair and never
\* raises to its caller, and when the outcome is a failure the table
\* returned is the input table unchanged.
\* Refuted: eval lets SystemExit pass the `except Exception` clause.
C1_NeverRaises ==
    ret.op \in CatalogOperations =>
        /\ ret.returned
        /\ ~ret.ok => (ret.same_ref /\ ret.table = ret.df)

\* C2: when a name an operation references is absent from the table, the
\* operation returns the very input table and a message that lists every
\* missing name.
\* Refuted: convert_data_types skips the absent names and converts the
\* rest of a copy; remove_duplicates of an empty table never looks at them.
C2_ValidationFirst ==
    (/\ ret.op \in CatalogOperations \ {"create_calculated_column"}
     /\ invalid_cols(ret.df, ret.referenced) # <<>>) =>
        /\ ret.returned
        /\ ret.same_ref
        /\ ret.table = ret.df
        /\ \A i \in 1..Len(ret.referenced) :
              HasColumn(ret.df, ret.referenced[i])
                  \/ ret.referenced[i] \in Range(ret.message.cols)

\* C3: a successful invocation appends exactly one record to the ledger,
\* and the record's operation kind is the kind of the operation invoked.
C3_OneRecordOfItsKind ==
    (ret.op \in CatalogOperations /\ ret.ok) =>
        /\ Len(transformation_history) = Len(ret.before) + 1
        /\ SubSeq(transformation_history, 1, Len(ret.before)) = ret.before
        /\ transformation_history[Len(transformation_history)].operation =
              [remove_duplicates |-> "REMOVE_DUPLICATES",
               handle_missing_values |-> "HANDLE_MISSING",
               filter_data |-> "FILTER_DATA",
               sort_data |-> "SORT_DATA",
               rename_columns |-> "RENAME_COLUMNS",
               drop_columns |-> "DROP_COLUMNS",
               convert_data_types |-> "CONVERT_TYPES",
               create_calculated_column |-> "CREATE_COLUMN",
               text_operations |-> "TEXT_OPERATION",
               fix_column_typos |-> "FIX_COLUMN_TYPOS",
               fix_data_typos |-> "FIX_DATA_TYPOS"][ret.op]

\* A text operation has succeeded on a ledger that held a record, and the
\* ledger has grown by its TEXT_OPERATION record.
C3_Witness ==
    /\ ret.op = "text_operations"
    /\ ret.ok
    /\ ret.before # <<>>
    /\ Len(transformation_history) = 2
    /\ transformation_history[2].operation = "TEXT_OPERATION"

\* C4: an invocation whose outcome is a failure (a validation failure, an
\* unsupported parameter, an exception turned into a message) leaves the
\* ledger as it was before the call.
C4_FailureLeavesLedger ==
    (ret.op \in CatalogOperations /\ ret.returned /\ ~ret.ok) =>
        transformation_history = ret.before

\* A filter has failed with a TypeError turned into a message, on a ledger
\* that held a record.
C4_Witness ==
    /\ ret.op = "filter_data"
    /\ ret.returned
    /\ ~ret.ok
    /\ ret.message.exc = "TypeError"
    /\ ret.before # <<>>
    /\ transformation_history = ret.before

\* C5: the record of a successful operation holds, as rows_before and
\* cols_before, the dimensions of the input table and, as rows_after and
\* cols_after, the dimensions of the table returned.
C5_Accounting ==
    (ret.op \in CatalogOperations /\ ret.ok) =>
        LET record == transformation_history[Len(transformation_history)]
        IN  /\ record.rows_before = Len(ret.df.rows)
            /\ record.cols_before = Len(ret.df.columns)
            /\ record.rows_after = Len(ret.table.rows)
            /\ record.cols_after = Len(ret.table.columns)

\* A deduplication has removed a row, and its record holds the smaller
\* count.
C5_Witness ==
    /\ ret.op = "remove_duplicates"
    /\ ret.ok
    /\ Len(ret.table.rows) < Len(ret.df.rows)
    /\ transformation_history[Len(transformation_history)].rows_after
           = Len(ret.table.rows)

\* C6: the ledger is append-only and ordered.  A step that is not a
\* clear_history keeps every record where it was and at most adds records
\* behind them; get_transformation_history lists the ledger as it is, the
\* oldest record first; and after clear_history the ledger is empty.
C6_AppendOnlyOrdered ==
    [][/\ ret'.op = "clear_history" => transformation_history' = <<>>
       /\ ret'.op # "clear_history" =>
             /\ Len(transformation_history') >= Len(transformation_history)
             /\ SubSeq(transformation_history', 1, Len(transformation_history))
                    = transformation_history
       /\ ret'.op = "get_transformation_history" =>
             /\ ret'.listing = transformation_history
             /\ \A i, j \in 1..Len(ret'.listing) :
                   i < j => ret'.listing[i].timestamp <= ret'.listing[j].timestamp]_vars

\* The ledger is listed when it holds two records of the same kind and
\* the same second, the one of the larger table first.
C6_Witness ==
    /\ ret.op = "get_transformation_history"
    /\ Len(ret.listing) = 2
    /\ ret.listing[1].operation = ret.listing[2].operation
    /\ ret.listing[1].timestamp = ret.listing[2].timestamp
    /\ ret.listing[1].rows_before > ret.listing[2].rows_before

\* C7: a record appended by an operation of one session is never in the
\* history listed by another session.
\* Refuted: the sessions of a process share the one transformer.
C7_SessionScoped ==
    ret.op = "get_transformation_history" =>
        \A i \in 1..Len(ret.listing) :
            appended_by[Len(appended_by) - Len(ret.listing) + i] = ret.session

\* C8: every invocation that returns, successful or not, has called
\* logger.log_etl_step at least once.
\* Refuted: the validation returns come before any call of the logger.
C8_SinkCalled ==
    (ret.op \in CatalogOperations /\ ret.returned) => Len(ret.sink) >= 1

\* C9: when calls of logger.log_etl_step raise, the operation gives its
\* caller what it gives with a working sink: the same table, the same
\* success or failure, and no exception more.
\* Refuted: the logger is called inside the try block and again, bare, in
\* the except clause.
C9_SinkFailureContained ==
    ret.op \in CatalogOperations =>
        /\ ret.returned = ret.ideal.returned
        /\ ret.ok = ret.ideal.ok
        /\ ret.table = ret.ideal.table

\* C10: for key columns that are absent or exist and keep first or last,
\* remove_duplicates applied with the same parameters to its own result
\* returns a table equal to that result and reports 0 rows removed.
C10_DedupIdempotent ==
    (/\ ret.op = "remove_duplicates"
     /\ ret.ok
     /\ ret.arg \in {"first", "last"}
     /\ \A i \in 1..Len(ret.referenced) : HasColumn(ret.df, ret.referenced[i])) =>
        LET again == remove_duplicates(transformation_history, ret.table,
                                       ret.referenced, ret.arg, Env({}, now))
        IN  /\ again.ok
            /\ again.table = ret.table
            /\ again.message.n = 0

\* A deduplication on column a that keeps the last of the rows has removed
\* a row.
C10_Witness ==
    /\ ret.op = "remove_duplicates"
    /\ ret.ok
    /\ ret.arg = "last"
    /\ ret.referenced = <<"a">>
    /\ Len(ret.table.rows) < Len(ret.df.rows)

\* C11: remove_duplicates keeps, of each group of rows that agree on the
\* key columns (all columns when none is given), exactly one row, the first
\* for keep=first and the last for keep=last; the rows kept stay in their
\* order, and the count of the message is rows_before - rows_after of the
\* record.
C11_DedupKeepsOnePerGroup ==
    (/\ ret.op = "remove_duplicates"
     /\ ret.ok
     /\ ret.arg \in {"first", "last"}
     /\ \A i \in 1..Len(ret.referenced) : HasColumn(ret.df, ret.referenced[i])) =>
        LET n == Len(ret.df.rows)
            key == {j \in 1..Len(ret.df.columns) :
                       \/ ret.referenced = <<>>
                       \/ ret.df.columns[j] \in Range(ret.referenced)}
            agree(q, r) == \A j \in key : ret.df.rows[q][j] = ret.df.rows[r][j]
            kept == {r \in 1..n :
                        \A q \in 1..n :
                            agree(q, r) =>
                                IF ret.arg = "first" THEN q >= r ELSE q <= r}
            nth(i) == CHOOSE r \in kept : Cardinality({q \in kept : q < r}) = i - 1
            record == transformation_history[Len(transformation_history)]
        IN  /\ ret.table.columns = ret.df.columns
            /\ Len(ret.table.rows) = Cardinality(kept)
            /\ \A i \in 1..Len(ret.table.rows) : ret.table.rows[i] = ret.df.rows[nth(i)]
            /\ ret.message.text = "Removed duplicate rows"
            /\ ret.message.n = n - Cardinality(kept)
            /\ ret.message.n = record.rows_before - record.rows_after

\* Of two rows with the same a, the second is kept under keep=last, and
\* the message counts one row removed.
C11_Witness ==
    /\ ret.op = "remove_duplicates"
    /\ ret.ok
    /\ ret.arg = "last"
    /\ ret.referenced = <<"a">>
    /\ ret.df.rows = <<<<Number(1), NY>>, <<Number(1), Ny>>>>
    /\ ret.table.rows = <<<<Number(1), Ny>>>>
    /\ ret.message.n = 1

\* C12: after handle_missing_values(method='fill_value', columns=C,
\* fill_value=v) with every column of C in the table returns, no column of
\* C in the returned table contains a null, whatever the fill value v.
C12_FillCompleteness ==
    (/\ ret.op = "handle_missing_values" /\ ret.arg = "fill_value"
     /\ \A i \in 1..Len(ret.referenced) : HasColumn(ret.df, ret.referenced[i])) =>
        NullCount(ret.table, ret.referenced) = 0

\* C13: a successful handle_missing_values used one of the seven methods,
\* and the count in its message is the number of nulls in the target
\* columns (all columns when none is given) of the input table minus the
\* number of nulls in the same columns of the returned table.
C13_ReportsNullsResolved ==
    (ret.op = "handle_missing_values" /\ ret.ok) =>
        LET target == IF ret.referenced = <<>> THEN Range(ret.df.columns)
                      ELSE Range(ret.referenced)
            nulls(t) == Cardinality({<<r, j>> \in (1..Len(t.rows)) \X (1..Len(t.columns)) :
                                        t.columns[j] \in target /\ IsNull(t.rows[r][j])})
        IN  /\ ret.arg \in {"drop", "fill_mean", "fill_median", "fill_mode",
                            "fill_value", "forward_fill", "backward_fill"}
            /\ ret.message.text = "Handled missing values using"
            /\ ret.message.arg = ret.arg
            /\ ret.message.n = nulls(ret.df) - nulls(ret.table)

\* A drop on column a of a row that is null in both columns: one null of
\* the target column is resolved, two of the table.
C13_Witness ==
    /\ ret.op = "handle_missing_values" /\ ret.ok
    /\ ret.arg = "drop" /\ ret.referenced = <<"a">>
    /\ Len(ret.df.rows) = 2 /\ Len(ret.table.rows) = 1
    /\ ret.df.rows[1] = <<NULL, NULL>>
    /\ ret.message.n = 1

\* C14: after a successful filter_data with a string operator (contains,
\* startswith, endswith), no row of the returned table has a null in the
\* filter column, whatever the search value.
C14_NullsNeverMatchText ==
    (ret.op = "filter_data" /\ ret.ok /\ ret.arg \in {"contains", "startswith", "endswith"}) =>
        LET j == CHOOSE j \in 1..Len(ret.df.columns) : ret.df.columns[j] = ret.referenced[1]
        IN  \A r \in 1..Len(ret.table.rows) : ~IsNull(ret.table.rows[r][j])

\* C15: filter_data with an operator outside its nine, text_operations
\* with an operation outside its six, and sort_data whose ascending list
\* is not as long as its columns list each fail: the input table comes
\* back unchanged with an error message and the ledger gets no record.
\* sort_data without an ascending list, when it succeeds, returns the rows
\* of the input in ascending order of every key (nulls last).
C15_InvalidShapeChangesNothing ==
    LET shape ==
            \/ /\ ret.op = "filter_data"
               /\ ret.arg \notin {"==", "!=", ">", "<", ">=", "<=",
                                  "contains", "startswith", "endswith"}
            \/ /\ ret.op = "text_operations"
               /\ ret.arg \notin {"upper", "lower", "title", "strip", "replace", "extract"}
            \/ /\ ret.op = "sort_data" /\ ret.params.ascending.given
               /\ Len(ret.params.ascending.flags) # Len(ret.params.columns)
        t == ret.table
        key(i) == CHOOSE j \in 1..Len(t.columns) : t.columns[j] = ret.referenced[i]
        differ(p, q, i) ==
            LET x == t.rows[p][key(i)]
                y == t.rows[q][key(i)]
            IN  IsNull(x) # IsNull(y) \/ (~IsNull(x) /\ (Less(x, y) \/ Less(y, x)))
        inorder(p, q) ==
            \A i \in 1..Len(ret.referenced) :
                (differ(p, q, i) /\ \A h \in 1..(i - 1) : ~differ(p, q, h)) =>
                    LET x == t.rows[p][key(i)]
                        y == t.rows[q][key(i)]
                    IN  IsNull(y) \/ (~IsNull(x) /\ Less(x, y))
        times(rows, row) == Cardinality({r \in 1..Len(rows) : rows[r] = row})
    IN  /\ shape =>
              /\ ret.returned /\ ~ret.ok
              /\ ret.table = ret.df /\ ret.same_ref
              /\ ret.message.text # ""
              /\ transformation_history = ret.before
        /\ (ret.op = "sort_data" /\ ~ret.params.ascending.given /\ ret.ok) =>
              /\ t.columns = ret.df.columns
              /\ Len(t.rows) = Len(ret.df.rows)
              /\ \A r \in 1..Len(t.rows) : times(t.rows, t.rows[r]) = times(ret.df.rows, t.rows[r])
              /\ \A p, q \in 1..Len(t.rows) : p < q => inorder(p, q)

\* sort_data on the existing column a with two flags for one key.
C15_Witness ==
    /\ ret.op = "sort_data" /\ ret.params.columns = <<"a">>
    /\ ret.params.ascending = Flags(<<FALSE, TRUE>>)
    /\ Len(ret.df.rows) = 2 /\ ret.table = ret.df /\ ~ret.ok
    /\ ret.message.text = "Length of ascending list must match columns list"
    /\ transformation_history = ret.before

\* C16: after a successful sort_data (one key or several, any flags), the
\* rows of the input that agree on every sort-key column appear in the
\* returned table in the order they have in the input.
C16_SortStable ==
    (ret.op = "sort_data" /\ ret.ok) =>
        LET key(t, r) == [i \in 1..Len(ret.referenced) |->
                            t.rows[r][CHOOSE j \in 1..Len(t.columns) :
                                          t.columns[j] = ret.referenced[i]]]
            group(t, r) == {q \in 1..Len(t.rows) : key(t, q) = key(ret.df, r)}
        IN  \A r \in 1..Len(ret.df.rows) :
               Keep(ret.table.rows, group(ret.table, r)) = Keep(ret.df.rows, group(ret.df, r))

\* C17: a successful fix_data_typos gives every cell of the column that
\* equals a key of the corrections the value of that key, as the cell was
\* in the input, and leaves every other cell as it was; a successful
\* fix_column_typos does the same with the column labels.  With A -> B and
\* B -> C an original A becomes B, never C.
C17_SimultaneousSubstitution ==
    LET c == IF ret.op = "fix_data_typos" THEN ret.params.corrections ELSE ret.params
        hit(x, i) == ~IsNull(x) /\ Plain(x) = Plain(c[i].key)
        j == CHOOSE j \in 1..Len(ret.df.columns) : ret.df.columns[j] = ret.referenced[1]
    IN  /\ (ret.op = "fix_data_typos" /\ ret.ok) =>
              /\ ret.table.columns = ret.df.columns
              /\ Len(ret.table.rows) = Len(ret.df.rows)
              /\ \A r \in 1..Len(ret.df.rows) :
                    /\ \A h \in 1..Len(ret.df.columns) :
                          h # j => ret.table.rows[r][h] = ret.df.rows[r][h]
                    /\ \A i \in 1..Len(c) :
                          hit(ret.df.rows[r][j], i) =>
                              Plain(ret.table.rows[r][j]) = Plain(c[i].value)
                    /\ (\A i \in 1..Len(c) : ~hit(ret.df.rows[r][j], i)) =>
                          ret.table.rows[r][j] = ret.df.rows[r][j]
        /\ (ret.op = "fix_column_typos" /\ ret.ok) =>
              /\ ret.table.rows = ret.df.rows
              /\ Len(ret.table.columns) = Len(ret.df.columns)
              /\ \A h \in 1..Len(ret.df.columns) :
                    /\ \A i \in 1..Len(c) :
                          ret.df.columns[h] = c[i].key => ret.table.columns[h] = c[i].value
                    /\ (\A i \in 1..Len(c) : ret.df.columns[h] # c[i].key) =>
                          ret.table.columns[h] = ret.df.columns[h]

\* Ny -> NY and NY -> N on a column that holds Ny and then NY.
C17_Witness ==
    /\ ret.op = "fix_data_typos" /\ ret.ok /\ ret.referenced = <<"b">>
    /\ ret.params.corrections = <<Item(Ny, NY), Item(NY, Text(<<"N">>))>>
    /\ Len(ret.df.rows) = 2
    /\ ret.df.rows[1][2] = Ny /\ ret.df.rows[2][2] = NY
    /\ ret.table.rows[1][2] = NY /\ ret.table.rows[2][2] = Text(<<"N">>)

\* C18: after a successful fix_data_typos, the 'values changed' number of
\* the message and of the ledger details is the number of cells of the
\* column whose value in the returned table differs from the input table.
C18_CountsCellsChanged ==
    (ret.op = "fix_data_typos" /\ ret.ok) =>
        LET j == CHOOSE j \in 1..Len(ret.df.columns) : ret.df.columns[j] = ret.referenced[1]
            differing == {r \in 1..Len(ret.df.rows) :
                             Plain(ret.table.rows[r][j]) # Plain(ret.df.rows[r][j])}
            record == transformation_history[Len(transformation_history)]
        IN  /\ ret.message.m = Cardinality(differing)
            /\ record.details.n = Cardinality(differing)

\* C19: when convert_data_types gets a type_mapping of which at least one
\* column converts and at least one fails (it is absent, or its conversion
\* raises), the call succeeds, every column that converts holds in the
\* returned table what its conversion gives, every other column is as in
\* the input, one CONVERT_TYPES record is appended, and the message lists
\* the columns that converted as well as the columns that failed.
C19_PartialConversion ==
    LET m == ret.params
        absent(i) == ~HasColumn(ret.df, m[i].key)
        j(i) == CHOOSE j \in 1..Len(ret.df.columns) : ret.df.columns[j] = m[i].key
        alone(i) == ConvertColumn(ret.df, j(i), m[i].value)
        fails(i) == absent(i) \/ alone(i).raised
        converted == {i \in 1..Len(m) : ~fails(i)}
        failing == {i \in 1..Len(m) : fails(i)}
        record == transformation_history[Len(transformation_history)]
    IN  (ret.op = "convert_data_types" /\ converted # {} /\ failing # {}) =>
            /\ ret.returned /\ ret.ok
            /\ ret.table.columns = ret.df.columns
            /\ \A i \in converted :
                  /\ ret.table.dtypes[j(i)] = alone(i).table.dtypes[j(i)]
                  /\ Column(ret.table, j(i)) = Column(alone(i).table, j(i))
            /\ \A h \in 1..Len(ret.df.columns) :
                  (\A i \in converted : j(i) # h) =>
                      /\ ret.table.dtypes[h] = ret.df.dtypes[h]
                      /\ Column(ret.table, h) = Column(ret.df, h)
            /\ Len(transformation_history) = Len(ret.before) + 1
            /\ record.operation = "CONVERT_TYPES"
            /\ \A i \in failing : m[i].key \in Range(ret.message.cols)
            /\ \A i \in converted : m[i].key \in Range(ret.message.cols)

\* C20: create_calculated_column whose expression names something that is
\* no column (zz + 1), does not parse (a +) or adds a number to a text
\* (a + b) returns the input table unchanged with an error message that
\* carries the exception, appends no ledger record, and leaves the
\* caller's table without a column new_column it did not have.
C20_BadExpressionChangesNothing ==
    LET e == ret.params.expression
        col(label) == CHOOSE j \in 1..Len(ret.df.columns) : ret.df.columns[j] = label
        unknown_name == e = <<"z", "z", " ", "+", " ", "1">> /\ ~HasColumn(ret.df, "zz")
        no_parse == e = <<"a", " ", "+">>
        mismatch == /\ e = <<"a", " ", "+", " ", "b">>
                    /\ HasColumn(ret.df, "a") /\ HasColumn(ret.df, "b")
                    /\ \E r \in 1..Len(ret.df.rows) :
                          IsNum(ret.df.rows[r][col("a")]) /\ IsStr(ret.df.rows[r][col("b")])
    IN  (ret.op = "create_calculated_column" /\ (unknown_name \/ no_parse \/ mismatch)) =>
            /\ ret.returned /\ ~ret.ok
            /\ ret.table = ret.df /\ ret.same_ref
            /\ current_data[ret.session] = ret.df
            /\ ret.message.text = "Error creating calculated column"
            /\ ret.message.exc = (IF unknown_name THEN "NameError"
                                  ELSE IF no_parse THEN "SyntaxError" ELSE "TypeError")
            /\ transformation_history = ret.before
            /\ ~HasColumn(ret.df, ret.params.new_column) =>
                  ~HasColumn(current_data[ret.session], ret.params.new_column)

\* a + b asked for as column c of a table whose a holds a number and whose
\* b holds a text in the same row.
C20_Witness ==
    /\ ret.op = "create_calculated_column" /\ ret.params.new_column = "c"
    /\ ret.params.expression = <<"a", " ", "+", " ", "b">>
    /\ Len(ret.df.rows) = 2 /\ ret.df.rows[2] = <<Number(1), NY>>
    /\ ~ret.ok /\ ret.message.exc = "TypeError"
    /\ ret.table = ret.df /\ transformation_history = ret.before

\* C21: a successful text_operations 'extract' returns the input columns
\* as they were, the source column included, followed by a column
\* '<column>_extracted' that holds in each row the first captured group of
\* the row's text (the cell as text), or a null when the pattern does not
\* match; a successful upper, lower, title, strip or replace returns the
\* same column labels with every column but the named one as it was.
C21_ExtractAddsColumn ==
    LET column == ret.params.column
        j == CHOOSE j \in 1..Len(ret.df.columns) : ret.df.columns[j] = column
        n == Len(ret.df.columns)
        label == [a |-> "a_extracted", b |-> "b_extracted", c |-> "c_extracted"][column]
    IN  /\ (ret.op = "text_operations" /\ ret.ok /\ ret.arg = "extract") =>
              /\ ret.table.columns = Append(ret.df.columns, label)
              /\ Len(ret.table.rows) = Len(ret.df.rows)
              /\ \A r \in 1..Len(ret.df.rows) :
                    /\ SubSeq(ret.table.rows[r], 1, n) = ret.df.rows[r]
                    /\ ret.table.rows[r][n + 1] =
                          Extract(AsText(ret.df.rows[r][j], ret.df.dtypes[j]),
                                  ret.params.kwargs.pattern)
        /\ (ret.op = "text_operations" /\ ret.ok /\ ret.arg # "extract") =>
              /\ ret.table.columns = ret.df.columns
              /\ Len(ret.table.rows) = Len(ret.df.rows)
              /\ \A r \in 1..Len(ret.df.rows) : \A h \in 1..n :
                    h # j => ret.table.rows[r][h] = ret.df.rows[r][h]

\* C22: suggest_typo_fixes without a column returns column suggestions
\* whose keys are columns of the table not among the ten common words
\* once in lower case, each with 1 to 3 candidates, every candidate a
\* common word at similarity 0.6 or more to the lower-cased name, and data
\* suggestions that are empty.
C22_ColumnSuggestions ==
    (ret.op = "suggest_typo_fixes" /\ ret.arg = None) =>
        LET suggestions == ret.listing.column_suggestions
            lower(col) == Lower(LabelChars[col])
            similarity(word, col) ==
                Matching(word, lower(col), 1, Len(word), 1, Len(lower(col)))
        IN  /\ DOMAIN suggestions \subseteq Range(ret.df.columns)
            /\ \A col \in DOMAIN suggestions :
                  /\ lower(col) \notin common_words
                  /\ Len(suggestions[col]) \in 1..3
                  /\ \A i \in 1..Len(suggestions[col]) :
                        /\ suggestions[col][i] \in common_words
                        /\ 10 * 2 * similarity(suggestions[col][i], col)
                              >= 6 * (Len(suggestions[col][i]) + Len(lower(col)))
            /\ DOMAIN ret.listing.data_suggestions = {}

\* The columns atume, near to four common words, and Name, a common word
\* but for its capital: three candidates for the first, no entry for the
\* second.
C22_Witness ==
    /\ ret.op = "suggest_typo_fixes" /\ ret.arg = None
    /\ ret.df.columns = <<"atume", "Name">>
    /\ DOMAIN ret.listing.column_suggestions = {"atume"}
    /\ Len(ret.listing.column_suggestions["atume"]) = 3

\* C23: suggest_typo_fixes with a text column returns data suggestions
\* whose keys are values that occur at most 2 times in the column, each
\* with 1 or 2 candidates, every candidate a value that occurs more than
\* 2 times in the column.
C23_DataSuggestions ==
    (ret.op = "suggest_typo_fixes" /\ ret.arg # None) =>
        LET suggestions == ret.listing.data_suggestions
            j == CHOOSE j \in 1..Len(ret.df.columns) : ret.df.columns[j] = ret.arg
            occurrences(text) ==
                Cardinality({r \in 1..Len(ret.df.rows) : ret.df.rows[r][j] = Text(text)})
        IN  \A key \in DOMAIN suggestions :
               /\ occurrences(key) \in 1..2
               /\ Len(suggestions[key]) \in 1..2
               /\ \A i \in 1..Len(suggestions[key]) :
                     occurrences(suggestions[key][i]) > 2

\* Texs once beside three other spellings three times each: two candidates.
C23_Witness ==
    /\ ret.op = "suggest_typo_fixes" /\ ret.arg = "b"
    /\ Len(ret.df.rows) = 10
    /\ DOMAIN ret.listing.data_suggestions = {<<"T", "e", "x", "s">>}
    /\ Len(ret.listing.data_suggestions[<<"T", "e", "x", "s">>]) = 2

\* C24: the column suggestions for a table with a column 'nam' hold an
\* entry for nam with the candidate 'name', and the column suggestions for
\* a table with a column 'xyz123' hold no entry for xyz123.
C24_ThresholdBoundary ==
    (ret.op = "suggest_typo_fixes" /\ ret.arg = None) =>
        LET suggestions == ret.listing.column_suggestions
        IN  /\ "nam" \in Range(ret.df.columns) =>
                  /\ "nam" \in DOMAIN suggestions
                  /\ \E i \in 1..Len(suggestions["nam"]) :
                        suggestions["nam"][i] = <<"n", "a", "m", "e">>
            /\ "xyz123" \notin DOMAIN suggestions

\* A table with both columns: one entry, nam with name.
C24_Witness ==
    /\ ret.op = "suggest_typo_fixes" /\ ret.arg = None
    /\ ret.df.columns = <<"xyz123", "nam">>
    /\ DOMAIN ret.listing.column_suggestions = {"nam"}
    /\ ret.listing.column_suggestions["nam"] = <<<<"n", "a", "m", "e">>>>

\* C25: no catalog operation changes the table it is given: after a call,
\* successful or failed, the table the caller gave has the columns, the
\* rows and the cells it had before the call.
C25_InputUnchanged ==
    ret.op \in CatalogOperations => ret.input = ret.df

\* C26: handle_missing_values with a method that is none of the seven
\* known ones returns the table unchanged, and its message reports no
\* error.
C26_UnknownMethodNoOps ==
    (ret.op = "handle_missing_values" /\ ret.arg \notin KnownMethods) =>
        /\ ret.returned
        /\ ret.table = ret.df
        /\ ret.message.text # "Error handling missing values"
        /\ ret.message.exc = ""

\* C27: while the sessions change their tables only by catalog operations
\* of the transform page, every record of the ledger after the first one
\* since the last clear_history starts from the rows and the columns at
\* which the record before it ended.
C27_ChainConsistent ==
    \A i \in 2..Len(transformation_history) :
        /\ transformation_history[i].rows_before
               = transformation_history[i - 1].rows_after
        /\ transformation_history[i].cols_before
               = transformation_history[i - 1].cols_after

\* C28: every record of the ledger obeys the dimension signs of its kind:
\* SORT_DATA, RENAME_COLUMNS, CONVERT_TYPES, FIX_COLUMN_TYPOS and
\* FIX_DATA_TYPOS change neither count; REMOVE_DUPLICATES, FILTER_DATA and
\* HANDLE_MISSING add no row and change no column count; DROP_COLUMNS
\* changes no row count and adds no column; CREATE_COLUMN and
\* TEXT_OPERATION change no row count and add no or one column.
C28_DimensionSigns ==
    \A i \in 1..Len(transformation_history) :
        LET rec == transformation_history[i]
        IN  /\ rec.operation \in {"SORT_DATA", "RENAME_COLUMNS", "CONVERT_TYPES",
                                  "FIX_COLUMN_TYPOS", "FIX_DATA_TYPOS"} =>
                  rec.rows_changed = 0 /\ rec.cols_changed = 0
            /\ rec.operation \in {"REMOVE_DUPLICATES", "FILTER_DATA", "HANDLE_MISSING"} =>
                  rec.rows_changed <= 0 /\ rec.cols_changed = 0
            /\ rec.operation = "DROP_COLUMNS" =>
                  rec.rows_changed = 0 /\ rec.cols_changed <= 0
            /\ rec.operation \in {"CREATE_COLUMN", "TEXT_OPERATION"} =>
                  rec.rows_changed = 0 /\ rec.cols_changed \in {0, 1}

\* C29: column names stay unique: a successful catalog operation on a
\* table of pairwise distinct labels returns a table of pairwise distinct
\* labels, so the current table of every session keeps distinct labels.
C29_ColumnsStayUnique ==
    /\ (ret.op \in CatalogOperations /\ ret.ok /\ UniqueColumns(ret.df)) =>
           UniqueColumns(ret.table)
    /\ \A s \in Sessions : UniqueColumns(current_data[s])

\* C30: convert_data_types counts a column as converted only when its
\* target kind is one of int, float, string, datetime, boolean and
\* category: an entry of the mapping with another kind is named among the
\* errors of the message, is not in the count of the message, and leaves
\* its column as it was.
C30_UnsupportedKindIsError ==
    (ret.op = "convert_data_types" /\ ret.returned /\ ret.ok) =>
        LET kinds == {"int", "float", "string", "datetime", "boolean", "category"}
            unsupported == {i \in 1..Len(ret.params) : ret.params[i].value \notin kinds}
        IN  /\ \A i \in unsupported :
                   ret.params[i].key \in Range(ret.message.cols)
            /\ ret.message.n <= Len(ret.params) - Cardinality(unsupported)
            /\ \A i \in unsupported :
                   HasColumn(ret.df, ret.params[i].key) =>
                       LET j == Pos(ret.df, ret.params[i].key)
                       IN  /\ Column(ret.table, j) = Column(ret.df, j)
                           /\ ret.table.dtypes[j] = ret.df.dtypes[j]

====
